---- MODULE Spec2Model ----
(***************************************************************************)
(* Model of the report generator (src/generate.py): the country -> region  *)
(* classification and the cell renderers.  The program is single-threaded  *)
(* and keeps no state between calls, so the state of the model is one call *)
(* frame: the operation that ran last, its arguments, the locals it had    *)
(* when it returned and the value it returned.                             *)
(*                                                                         *)
(* A Python str is a sequence of Unicode code points; None is the value    *)
(* None below, which is no string (no code point is negative).             *)
(***************************************************************************)
EXTENDS Integers, Sequences, FiniteSets, TLC

VARIABLES op, arg, loc, ret

vars == <<op, arg, loc, ret>>

None == << -1 >>

\* Python's `x or d` for an Optional[str]: None and '' are falsy.
Or(x, d) == IF x = None \/ x = <<>> THEN d ELSE x

\* str(x): the text itself, and 'None' for None.
Str(x) == IF x = None THEN <<78, 111, 110, 101>> ELSE x

(***************************************************************************)
(* str methods                                                             *)
(***************************************************************************)

\* The characters str.strip() removes and the pattern \s matches (str.isspace):
\* \t \n \v \f \r, FS GS RS US, space, NEL, NBSP, and the Unicode spaces.
Whitespace ==
  (9..13) \cup (28..32) \cup {133, 160, 5760} \cup (8192..8202)
    \cup {8232, 8233, 8239, 8287, 12288}

\* s.lstrip(chars): drop the longest prefix made of characters in chars.
LStripChars(s, chars) ==
  LET n == Len(s)
      k == CHOOSE i \in 1..(n + 1) :
             /\ (i = n + 1 \/ s[i] \notin chars)
             /\ \A j \in 1..(i - 1) : s[j] \in chars
  IN  SubSeq(s, k, n)

\* s.rstrip(chars)
RStripChars(s, chars) ==
  LET n == Len(s)
      k == CHOOSE i \in 0..n :
             /\ (i = 0 \/ s[i] \notin chars)
             /\ \A j \in (i + 1)..n : s[j] \in chars
  IN  SubSeq(s, 1, k)

\* s.strip()
Strip(s) == RStripChars(LStripChars(s, Whitespace), Whitespace)

\* str.lower() / str.upper() of one character: ASCII and full-width Latin
\* letters change case, every other character of the model's alphabet has none.
LowerChar(c) ==
  IF (65 <= c /\ c <= 90) \/ (65313 <= c /\ c <= 65338) THEN c + 32 ELSE c

UpperChar(c) ==
  IF (97 <= c /\ c <= 122) \/ (65345 <= c /\ c <= 65370) THEN c - 32 ELSE c

Lower(s) == [i \in 1..Len(s) |-> LowerChar(s[i])]

Upper(s) == [i \in 1..Len(s) |-> UpperChar(s[i])]

\* k in s  (substring test)
Contains(k, s) ==
  \E i \in 0..(Len(s) - Len(k)) : SubSeq(s, i + 1, i + Len(k)) = k

(***************************************************************************)
(* Regions and the override table                                          *)
(***************************************************************************)

Asia     == <<20122, 27954>>          \* '亚洲'
Americas == <<32654, 27954>>          \* '美洲'
Europe   == <<27431, 27954>>          \* '欧洲'
Oceania  == <<22823, 27915, 27954>>   \* '大洋洲'
Other    == <<20854, 20182>>          \* '其他'

REGION_ORDER == <<Asia, Americas, Europe, Oceania, Other>>

\* The dict in insertion order (the order its items() are iterated in).
COUNTRY_REGION_MAP ==
  <<
    <<<<20013, 22269>>, Asia>>,  \* '中国': '亚洲'
    <<<<27888, 22269>>, Asia>>,  \* '泰国': '亚洲'
    <<<<21360, 23612>>, Asia>>,  \* '印尼': '亚洲'
    <<<<21360, 24230, 23612, 35199, 20122>>, Asia>>,  \* '印度尼西亚': '亚洲'
    <<<<39532, 26469, 35199, 20122>>, Asia>>,  \* '马来西亚': '亚洲'
    <<<<26032, 21152, 22369>>, Asia>>,  \* '新加坡': '亚洲'
    <<<<33778, 24459, 23486>>, Asia>>,  \* '菲律宾': '亚洲'
    <<<<36234, 21335>>, Asia>>,  \* '越南': '亚洲'
    <<<<26604, 22484, 23528>>, Asia>>,  \* '柬埔寨': '亚洲'
    <<<<20234, 26391>>, Asia>>,  \* '伊朗': '亚洲'
    <<<<26085, 26412>>, Asia>>,  \* '日本': '亚洲'
    <<<<38889, 22269>>, Asia>>,  \* '韩国': '亚洲'
    <<<<32654, 22269>>, Americas>>,  \* '美国': '美洲'
    <<<<21152, 25343, 22823>>, Americas>>,  \* '加拿大': '美洲'
    <<<<24052, 35199>>, Americas>>,  \* '巴西': '美洲'
    <<<<26234, 21033>>, Americas>>,  \* '智利': '美洲'
    <<<<27431, 30431>>, Europe>>,  \* '欧盟': '欧洲'
    <<<<69, 85>>, Europe>>,  \* 'EU': '欧洲'
    <<<<69, 117, 114, 111, 112, 101, 97, 110, 32, 85, 110, 105, 111, 110>>, Europe>>,  \* 'European Union': '欧洲'
    <<<<33521, 22269>>, Europe>>,  \* '英国': '欧洲'
    <<<<85, 75>>, Europe>>,  \* 'UK': '欧洲'
    <<<<85, 110, 105, 116, 101, 100, 32, 75, 105, 110, 103, 100, 111, 109>>, Europe>>,  \* 'United Kingdom': '欧洲'
    <<<<20420, 32599, 26031>>, Europe>>,  \* '俄罗斯': '欧洲'
    <<<<82, 117, 115, 115, 105, 97>>, Europe>>,  \* 'Russia': '欧洲'
    <<<<82, 117, 115, 115, 105, 97, 110, 32, 70, 101, 100, 101, 114, 97, 116, 105, 111, 110>>, Europe>>,  \* 'Russian Federation': '欧洲'
    <<<<22303, 32819, 20854>>, Europe>>,  \* '土耳其': '欧洲'
    <<<<84, 117, 114, 107, 101, 121>>, Europe>>,  \* 'Turkey': '欧洲'
    <<<<22467, 21450>>, Europe>>,  \* '埃及': '欧洲'
    <<<<69, 103, 121, 112, 116>>, Europe>>,  \* 'Egypt': '欧洲'
    <<<<28595, 27954>>, Oceania>>,  \* '澳洲': '大洋洲'
    <<<<28595, 22823, 21033, 20122>>, Oceania>>,  \* '澳大利亚': '大洋洲'
    <<<<65, 117, 115, 116, 114, 97, 108, 105, 97>>, Oceania>>,  \* 'Australia': '大洋洲'
    <<<<26032, 35199, 20848>>, Oceania>>,  \* '新西兰': '大洋洲'
    <<<<78, 101, 119, 32, 90, 101, 97, 108, 97, 110, 100>>, Oceania>>,  \* 'New Zealand': '大洋洲'
    <<<<21335, 38750>>, Other>>,  \* '南非': '其他'
    <<<<83, 111, 117, 116, 104, 32, 65, 102, 114, 105, 99, 97>>, Other>>,  \* 'South Africa': '其他'
    <<<<85, 83, 80>>, Other>>  \* 'USP': '其他'
  >>

\* A regional-indicator symbol, [U+1F1E6 - U+1F1FF].
IsRegionalIndicator(c) == 127462 <= c /\ c <= 127487

\* re.sub(r'[RI-RI]{2}', '', s): leftmost, non-overlapping pairs are removed.
RECURSIVE RemoveFlagPairs(_)
RemoveFlagPairs(s) ==
  IF Len(s) < 2 THEN s
  ELSE IF IsRegionalIndicator(s[1]) /\ IsRegionalIndicator(s[2])
       THEN RemoveFlagPairs(SubSeq(s, 3, Len(s)))
       ELSE <<s[1]>> \o RemoveFlagPairs(Tail(s))

\* re.sub(r'[U+10000 - U+10FFFF]', '', s): every astral character is removed.
RemoveAstral(s) == SelectSeq(s, LAMBDA c : ~(65536 <= c /\ c <= 1114111))

\* '•·-–—→↗'
Bullets == {8226, 183, 45, 8211, 8212, 8594, 8599}

normalize_country_name(name) ==
  LET s1 == Strip(Or(name, <<>>))
      s2 == RemoveFlagPairs(s1)
      s3 == RemoveAstral(s2)
      s4 == LStripChars(Strip(s3), Bullets)
  IN  Strip(s4)

\* (mutant) a region that is not recognized is returned as it is
normalize_region_PassThrough(r) ==
  LET r1 == Strip(Or(r, <<>>))
      rl == Lower(r1)
  IN  IF r1 \in {Asia, Americas, Europe, Oceania} THEN r1
      ELSE IF rl = <<97, 115, 105, 97>> THEN Asia
      ELSE IF rl \in {<<97, 109, 101, 114, 105, 99, 97, 115>>,
                      <<97, 109, 101, 114, 105, 99, 97>>,
                      <<110, 111, 114, 116, 104, 32, 97, 109, 101, 114, 105, 99, 97>>,
                      <<115, 111, 117, 116, 104, 32, 97, 109, 101, 114, 105, 99, 97>>,
                      <<108, 97, 116, 105, 110, 32, 97, 109, 101, 114, 105, 99, 97>>}
           THEN Americas
      ELSE IF rl \in {<<101, 117, 114, 111, 112, 101>>, <<101, 117>>} THEN Europe
      ELSE IF rl = <<111, 99, 101, 97, 110, 105, 97>> THEN Oceania
      ELSE r1

\* (mutant) the test for an already canonical value is missing
normalize_region_NoCanonical(r) ==
  LET r1 == Strip(Or(r, <<>>))
      rl == Lower(r1)
  IN  IF rl = <<97, 115, 105, 97>> THEN Asia
      ELSE IF rl \in {<<97, 109, 101, 114, 105, 99, 97, 115>>,
                      <<97, 109, 101, 114, 105, 99, 97>>,
                      <<110, 111, 114, 116, 104, 32, 97, 109, 101, 114, 105, 99, 97>>,
                      <<115, 111, 117, 116, 104, 32, 97, 109, 101, 114, 105, 99, 97>>,
                      <<108, 97, 116, 105, 110, 32, 97, 109, 101, 114, 105, 99, 97>>}
           THEN Americas
      ELSE IF rl \in {<<101, 117, 114, 111, 112, 101>>, <<101, 117>>} THEN Europe
      ELSE IF rl = <<111, 99, 101, 97, 110, 105, 97>> THEN Oceania
      ELSE Other

normalize_region(r) ==
  LET r1 == Strip(Or(r, <<>>))
      rl == Lower(r1)
  IN  IF r1 \in {Asia, Americas, Europe, Oceania} THEN r1
      ELSE IF rl \in {<<97, 115, 105, 97>>} THEN Asia                  \* "asia"
      ELSE IF rl \in {<<97, 109, 101, 114, 105, 99, 97, 115>>,        \* "americas"
                      <<97, 109, 101, 114, 105, 99, 97>>,             \* "america"
                      <<110, 111, 114, 116, 104, 32, 97, 109, 101, 114, 105, 99, 97>>,  \* "north america"
                      <<115, 111, 117, 116, 104, 32, 97, 109, 101, 114, 105, 99, 97>>,  \* "south america"
                      <<108, 97, 116, 105, 110, 32, 97, 109, 101, 114, 105, 99, 97>>}   \* "latin america"
           THEN Americas
      ELSE IF rl \in {<<101, 117, 114, 111, 112, 101>>, <<101, 117>>}  \* "europe", "eu"
           THEN Europe
      ELSE IF rl \in {<<111, 99, 101, 97, 110, 105, 97>>} THEN Oceania \* "oceania"
      ELSE Other

\* dict.get(k, d) for a dict held as a sequence of <<key, value>> pairs
DictHas(d, k) == \E i \in 1..Len(d) : d[i][1] = k

DictGet(d, k, default) ==
  IF DictHas(d, k)
  THEN d[CHOOSE i \in 1..Len(d) : d[i][1] = k][2]
  ELSE default

\* (mutant) a table without its 'European' row
r_map_NoEuropean ==
  <<
    <<<<65, 115, 105, 97>>, Asia>>,
    <<<<65, 115, 105, 97, 110>>, Asia>>,
    <<<<65, 109, 101, 114, 105, 99, 97, 115>>, Americas>>,
    <<<<65, 109, 101, 114, 105, 99, 97>>, Americas>>,
    <<<<78, 111, 114, 116, 104, 32, 65, 109, 101, 114, 105, 99, 97>>, Americas>>,
    <<<<83, 111, 117, 116, 104, 32, 65, 109, 101, 114, 105, 99, 97>>, Americas>>,
    <<<<69, 117, 114, 111, 112, 101>>, Europe>>,
    <<<<79, 99, 101, 97, 110, 105, 97>>, Oceania>>
  >>

\* Step 1, the overrides: the exact key, else the first key (in the dict's
\* order) that is a substring of c0; None when no key matches.
OverrideRegion(c0) ==
  IF DictHas(COUNTRY_REGION_MAP, c0)
  THEN normalize_region(DictGet(COUNTRY_REGION_MAP, c0, None))
  ELSE LET hits == {i \in 1..Len(COUNTRY_REGION_MAP) :
                      /\ COUNTRY_REGION_MAP[i][1] # <<>>
                      /\ Contains(COUNTRY_REGION_MAP[i][1], c0)}
       IN  IF hits = {} THEN None
           ELSE LET first == CHOOSE i \in hits : \A j \in hits : i <= j
                IN  normalize_region(COUNTRY_REGION_MAP[first][2])

\* The English labels the region cell accepts.
r_map ==
  <<
    <<<<65, 115, 105, 97>>, Asia>>,           \* 'Asia'
    <<<<65, 115, 105, 97, 110>>, Asia>>,     \* 'Asian'
    <<<<65, 109, 101, 114, 105, 99, 97, 115>>, Americas>>,   \* 'Americas'
    <<<<65, 109, 101, 114, 105, 99, 97>>, Americas>>,         \* 'America'
    <<<<78, 111, 114, 116, 104, 32, 65, 109, 101, 114, 105, 99, 97>>, Americas>>,  \* 'North America'
    <<<<83, 111, 117, 116, 104, 32, 65, 109, 101, 114, 105, 99, 97>>, Americas>>,  \* 'South America'
    <<<<69, 117, 114, 111, 112, 101>>, Europe>>,        \* 'Europe'
    <<<<69, 117, 114, 111, 112, 101, 97, 110>>, Europe>>,  \* 'European'
    <<<<79, 99, 101, 97, 110, 105, 97>>, Oceania>>       \* 'Oceania'
  >>

\* `region_cell and str(region_cell).strip()`
HintPresent(region_cell) ==
  region_cell # None /\ region_cell # <<>> /\ Strip(Str(region_cell)) # <<>>

\* (mutant) an unrecognized cell counts as no cell, so the lookup table is tried
HintRegion_FallThrough(region_cell) ==
  IF HintPresent(region_cell)
  THEN LET r0 == Strip(Str(region_cell))
           r == normalize_region(DictGet(r_map, r0, r0))
       IN  IF r = Other THEN None ELSE r
  ELSE None

\* Step 2, the region cell: None when the cell is absent or blank.
HintRegion(region_cell) ==
  IF HintPresent(region_cell)
  THEN LET r0 == Strip(Str(region_cell))
       IN  normalize_region(DictGet(r_map, r0, r0))
  ELSE None

\* (mutant) the raw label is looked up before the normalized one
LookupRegion_RawFirst(country, c0, region_map) ==
  LET raw == Strip(Str(Or(country, <<>>)))
  IN  IF raw \in DOMAIN region_map THEN normalize_region(region_map[raw])
      ELSE IF c0 \in DOMAIN region_map THEN normalize_region(region_map[c0])
      ELSE None

\* Step 3, region_map.csv: the normalized label, else the stripped raw label;
\* None when the table has neither.
LookupRegion(country, c0, region_map) ==
  LET raw == Strip(Str(Or(country, <<>>)))
  IN  IF c0 \in DOMAIN region_map THEN normalize_region(region_map[c0])
      ELSE IF raw \in DOMAIN region_map
           THEN normalize_region(region_map[Strip(Str(country))])
      ELSE None

\* (mutant) the region cell is looked at before the overrides
classify_region_HintFirst(country, region_cell, region_map) ==
  LET c0 == normalize_country_name(Str(Or(country, <<>>)))
      override == OverrideRegion(c0)
      hint == HintRegion(region_cell)
      lookup == LookupRegion(country, c0, region_map)
  IN  IF hint # None THEN hint
      ELSE IF override # None THEN override
      ELSE IF lookup # None THEN lookup
      ELSE Other

classify_region(country, region_cell, region_map) ==
  LET c0 == normalize_country_name(Str(Or(country, <<>>)))
      override == OverrideRegion(c0)
      hint == HintRegion(region_cell)
      lookup == LookupRegion(country, c0, region_map)
  IN  IF override # None THEN override
      ELSE IF hint # None THEN hint
      ELSE IF lookup # None THEN lookup
      ELSE Other

(***************************************************************************)
(* Inference from the country text (defined by the program, called by      *)
(* nothing: see classify_region)                                           *)
(***************************************************************************)

\* Two regional indicators to the two ASCII letters they stand for, else "".
flag_to_iso2(flag) ==
  IF Len(flag) < 2 THEN <<>>
  ELSE IF IsRegionalIndicator(flag[1]) /\ IsRegionalIndicator(flag[2])
       THEN <<flag[1] - 127462 + 65, flag[2] - 127462 + 65>>
       ELSE <<>>

iso_region ==
  <<
    <<<<67, 78>>, Asia>>,  \* "CN": '亚洲'
    <<<<74, 80>>, Asia>>,  \* "JP": '亚洲'
    <<<<75, 82>>, Asia>>,  \* "KR": '亚洲'
    <<<<84, 87>>, Asia>>,  \* "TW": '亚洲'
    <<<<72, 75>>, Asia>>,  \* "HK": '亚洲'
    <<<<77, 79>>, Asia>>,  \* "MO": '亚洲'
    <<<<83, 71>>, Asia>>,  \* "SG": '亚洲'
    <<<<77, 89>>, Asia>>,  \* "MY": '亚洲'
    <<<<84, 72>>, Asia>>,  \* "TH": '亚洲'
    <<<<86, 78>>, Asia>>,  \* "VN": '亚洲'
    <<<<73, 68>>, Asia>>,  \* "ID": '亚洲'
    <<<<73, 78>>, Asia>>,  \* "IN": '亚洲'
    <<<<65, 69>>, Asia>>,  \* "AE": '亚洲'
    <<<<83, 65>>, Asia>>,  \* "SA": '亚洲'
    <<<<73, 76>>, Asia>>,  \* "IL": '亚洲'
    <<<<85, 83>>, Americas>>,  \* "US": '美洲'
    <<<<67, 65>>, Americas>>,  \* "CA": '美洲'
    <<<<77, 88>>, Americas>>,  \* "MX": '美洲'
    <<<<66, 82>>, Americas>>,  \* "BR": '美洲'
    <<<<65, 82>>, Americas>>,  \* "AR": '美洲'
    <<<<67, 76>>, Americas>>,  \* "CL": '美洲'
    <<<<80, 69>>, Americas>>,  \* "PE": '美洲'
    <<<<67, 79>>, Americas>>,  \* "CO": '美洲'
    <<<<71, 66>>, Europe>>,  \* "GB": '欧洲'
    <<<<70, 82>>, Europe>>,  \* "FR": '欧洲'
    <<<<68, 69>>, Europe>>,  \* "DE": '欧洲'
    <<<<73, 84>>, Europe>>,  \* "IT": '欧洲'
    <<<<69, 83>>, Europe>>,  \* "ES": '欧洲'
    <<<<78, 76>>, Europe>>,  \* "NL": '欧洲'
    <<<<66, 69>>, Europe>>,  \* "BE": '欧洲'
    <<<<83, 69>>, Europe>>,  \* "SE": '欧洲'
    <<<<78, 79>>, Europe>>,  \* "NO": '欧洲'
    <<<<67, 72>>, Europe>>,  \* "CH": '欧洲'
    <<<<69, 85>>, Europe>>,  \* "EU": '欧洲'
    <<<<65, 85>>, Oceania>>,  \* "AU": '大洋洲'
    <<<<78, 90>>, Oceania>>  \* "NZ": '大洋洲'
  >>

EuropeZh ==
  <<
    <<27431, 30431>>,  \* '欧盟'
    <<27431, 27954>>,  \* '欧洲'
    <<33521, 22269>>,  \* '英国'
    <<27861, 22269>>,  \* '法国'
    <<24503, 22269>>,  \* '德国'
    <<24847, 22823, 21033>>,  \* '意大利'
    <<35199, 29677, 29273>>,  \* '西班牙'
    <<33655, 20848>>,  \* '荷兰'
    <<29790, 22763>>,  \* '瑞士'
    <<29790, 20856>>,  \* '瑞典'
    <<25386, 23041>>,  \* '挪威'
    <<27604, 21033, 26102>>,  \* '比利时'
    <<29233, 23572, 20848>>,  \* '爱尔兰'
    <<22885, 22320, 21033>>,  \* '奥地利'
    <<20025, 40614>>,  \* '丹麦'
    <<33452, 20848>>,  \* '芬兰'
    <<33889, 33796, 29273>>,  \* '葡萄牙'
    <<27874, 20848>>,  \* '波兰'
    <<25463, 20811>>,  \* '捷克'
    <<21256, 29273, 21033>>,  \* '匈牙利'
    <<32599, 39532, 23612, 20122>>,  \* '罗马尼亚'
    <<24076, 33098>>  \* '希腊'
  >>
EuropeAbbr ==
  <<
    <<69, 85>>,  \* 'EU'
    <<85, 75>>,  \* 'UK'
    <<71, 66>>  \* 'GB'
  >>
EuropeEn ==
  <<
    <<101, 117, 114, 111, 112, 101, 97, 110, 32, 117, 110, 105, 111, 110>>,  \* 'european union'
    <<101, 117, 114, 111, 112, 101>>,  \* 'europe'
    <<117, 110, 105, 116, 101, 100, 32, 107, 105, 110, 103, 100, 111, 109>>,  \* 'united kingdom'
    <<101, 110, 103, 108, 97, 110, 100>>,  \* 'england'
    <<115, 99, 111, 116, 108, 97, 110, 100>>,  \* 'scotland'
    <<119, 97, 108, 101, 115>>,  \* 'wales'
    <<102, 114, 97, 110, 99, 101>>,  \* 'france'
    <<103, 101, 114, 109, 97, 110, 121>>,  \* 'germany'
    <<105, 116, 97, 108, 121>>,  \* 'italy'
    <<115, 112, 97, 105, 110>>,  \* 'spain'
    <<110, 101, 116, 104, 101, 114, 108, 97, 110, 100, 115>>,  \* 'netherlands'
    <<115, 119, 105, 116, 122, 101, 114, 108, 97, 110, 100>>,  \* 'switzerland'
    <<115, 119, 101, 100, 101, 110>>,  \* 'sweden'
    <<110, 111, 114, 119, 97, 121>>,  \* 'norway'
    <<98, 101, 108, 103, 105, 117, 109>>,  \* 'belgium'
    <<105, 114, 101, 108, 97, 110, 100>>,  \* 'ireland'
    <<97, 117, 115, 116, 114, 105, 97>>,  \* 'austria'
    <<100, 101, 110, 109, 97, 114, 107>>,  \* 'denmark'
    <<102, 105, 110, 108, 97, 110, 100>>,  \* 'finland'
    <<112, 111, 114, 116, 117, 103, 97, 108>>,  \* 'portugal'
    <<112, 111, 108, 97, 110, 100>>,  \* 'poland'
    <<99, 122, 101, 99, 104>>,  \* 'czech'
    <<104, 117, 110, 103, 97, 114, 121>>,  \* 'hungary'
    <<114, 111, 109, 97, 110, 105, 97>>,  \* 'romania'
    <<103, 114, 101, 101, 99, 101>>  \* 'greece'
  >>
AmericasZh ==
  <<
    <<32654, 22269>>,  \* '美国'
    <<21152, 25343, 22823>>,  \* '加拿大'
    <<22696, 35199, 21733>>,  \* '墨西哥'
    <<24052, 35199>>,  \* '巴西'
    <<38463, 26681, 24311>>,  \* '阿根廷'
    <<26234, 21033>>,  \* '智利'
    <<31192, 40065>>,  \* '秘鲁'
    <<21733, 20262, 27604, 20122>>  \* '哥伦比亚'
  >>
AmericasEn ==
  <<
    <<117, 110, 105, 116, 101, 100, 32, 115, 116, 97, 116, 101, 115>>,  \* 'united states'
    <<117, 46, 115, 46>>,  \* 'u.s.'
    <<117, 115, 97>>,  \* 'usa'
    <<97, 109, 101, 114, 105, 99, 97>>,  \* 'america'
    <<99, 97, 110, 97, 100, 97>>,  \* 'canada'
    <<109, 101, 120, 105, 99, 111>>,  \* 'mexico'
    <<98, 114, 97, 122, 105, 108>>,  \* 'brazil'
    <<97, 114, 103, 101, 110, 116, 105, 110, 97>>,  \* 'argentina'
    <<99, 104, 105, 108, 101>>,  \* 'chile'
    <<112, 101, 114, 117>>,  \* 'peru'
    <<99, 111, 108, 111, 109, 98, 105, 97>>  \* 'colombia'
  >>
OceaniaZh ==
  <<
    <<28595, 22823, 21033, 20122>>,  \* '澳大利亚'
    <<26032, 35199, 20848>>  \* '新西兰'
  >>
OceaniaEn ==
  <<
    <<97, 117, 115, 116, 114, 97, 108, 105, 97>>,  \* 'australia'
    <<110, 101, 119, 32, 122, 101, 97, 108, 97, 110, 100>>,  \* 'new zealand'
    <<110, 122>>  \* 'nz'
  >>
AsiaZh ==
  <<
    <<20013, 22269>>,  \* '中国'
    <<26085, 26412>>,  \* '日本'
    <<38889, 22269>>,  \* '韩国'
    <<21488, 28286>>,  \* '台湾'
    <<39321, 28207>>,  \* '香港'
    <<28595, 38376>>,  \* '澳门'
    <<26032, 21152, 22369>>,  \* '新加坡'
    <<39532, 26469, 35199, 20122>>,  \* '马来西亚'
    <<27888, 22269>>,  \* '泰国'
    <<36234, 21335>>,  \* '越南'
    <<21360, 24230>>,  \* '印度'
    <<21360, 23612>>,  \* '印尼'
    <<38463, 32852, 37195>>,  \* '阿联酋'
    <<27801, 29305>>,  \* '沙特'
    <<20197, 33394, 21015>>  \* '以色列'
  >>
AsiaEn ==
  <<
    <<99, 104, 105, 110, 97>>,  \* 'china'
    <<106, 97, 112, 97, 110>>,  \* 'japan'
    <<107, 111, 114, 101, 97>>,  \* 'korea'
    <<115, 111, 117, 116, 104, 32, 107, 111, 114, 101, 97>>,  \* 'south korea'
    <<116, 97, 105, 119, 97, 110>>,  \* 'taiwan'
    <<104, 111, 110, 103, 32, 107, 111, 110, 103>>,  \* 'hong kong'
    <<109, 97, 99, 97, 117>>,  \* 'macau'
    <<109, 97, 99, 97, 111>>,  \* 'macao'
    <<115, 105, 110, 103, 97, 112, 111, 114, 101>>,  \* 'singapore'
    <<109, 97, 108, 97, 121, 115, 105, 97>>,  \* 'malaysia'
    <<116, 104, 97, 105, 108, 97, 110, 100>>,  \* 'thailand'
    <<118, 105, 101, 116, 110, 97, 109>>,  \* 'vietnam'
    <<105, 110, 100, 105, 97>>,  \* 'india'
    <<105, 110, 100, 111, 110, 101, 115, 105, 97>>,  \* 'indonesia'
    <<117, 97, 101>>,  \* 'uae'
    <<117, 110, 105, 116, 101, 100, 32, 97, 114, 97, 98, 32, 101, 109, 105, 114, 97, 116, 101, 115>>,  \* 'united arab emirates'
    <<115, 97, 117, 100, 105>>,  \* 'saudi'
    <<105, 115, 114, 97, 101, 108>>  \* 'israel'
  >>

\* any(k in t for k in ks)
AnyIn(ks, t) == \E i \in 1..Len(ks) : Contains(ks[i], t)

infer_region(country_raw) ==
  IF country_raw = None \/ country_raw = <<>> THEN Other
  ELSE
    LET s == Strip(Str(country_raw))
        iso2 == IF Len(s) >= 2 THEN flag_to_iso2(SubSeq(s, 1, 2)) ELSE <<>>
        t == IF iso2 # <<>> THEN Strip(SubSeq(s, 3, Len(s))) ELSE s
        t_upper == Upper(t)
        t_lower == Lower(t)
    IN  IF Contains(<<85, 83, 80>>, Upper(s)) THEN Other
        ELSE IF DictHas(iso_region, iso2) THEN DictGet(iso_region, iso2, None)
        ELSE IF AnyIn(EuropeZh, t) THEN Europe
        ELSE IF AnyIn(EuropeAbbr, t_upper) THEN Europe
        ELSE IF AnyIn(EuropeEn, t_lower) THEN Europe
        ELSE IF AnyIn(AmericasZh, t) THEN Americas
        ELSE IF AnyIn(AmericasEn, t_lower) THEN Americas
        ELSE IF AnyIn(OceaniaZh, t) THEN Oceania
        ELSE IF AnyIn(OceaniaEn, t_lower) THEN Oceania
        ELSE IF AnyIn(AsiaZh, t) THEN Asia
        ELSE IF AnyIn(AsiaEn, t_lower) THEN Asia
        ELSE Other

(***************************************************************************)
(* Inputs                                                                  *)
(***************************************************************************)

\* How many decoration units a country label may start with.
MaxDeco == 1

\* What a country cell is decorated with: a space, a dash, and the
\* flag of China (two regional indicators, C and N).
DecoUnits == {<<32>>, <<45>>, <<127464, 127475>>}

RECURSIVE DecoPrefixes(_)
DecoPrefixes(n) ==
  IF n = 0 THEN {<<>>}
  ELSE DecoPrefixes(n - 1)
         \cup {u \o p : u \in DecoUnits, p \in DecoPrefixes(n - 1)}

\* Every override key, and labels that are no key.
Words ==
  {COUNTRY_REGION_MAP[i][1] : i \in 1..Len(COUNTRY_REGION_MAP)}
    \cup {<<>>,
          <<117, 115, 112>>,                      \* 'usp'
          <<71, 101, 114, 109, 97, 110, 121>>,     \* 'Germany'
          <<27861, 22269>>,                       \* '法国'
          <<90, 101, 100, 108, 97, 110, 100>>}     \* 'Zedland'

\* '' and ' USP'
Suffixes == {<<>>, <<32, 85, 83, 80>>}

Countries ==
  {None} \cup {p \o w \o x : p \in DecoPrefixes(MaxDeco), w \in Words, x \in Suffixes}

RegionCells ==
  {None, <<>>, <<32>>,
   <<65, 115, 105, 97>>,                                  \* 'Asia'
   <<78, 111, 114, 116, 104, 32, 65, 109, 101, 114, 105, 99, 97>>,  \* 'North America'
   <<83, 111, 117, 116, 104, 32, 65, 109, 101, 114, 105, 99, 97>>,  \* 'South America'
   <<69, 85>>,                                            \* 'EU'
   <<69, 117, 114, 111, 112, 101, 97, 110>>,                \* 'European'
   <<79, 99, 101, 97, 110, 105, 97>>,                      \* 'Oceania'
   <<65, 102, 114, 105, 99, 97>>,                         \* 'Africa'
   <<101, 117, 114, 111, 112, 101, 97, 110>>,               \* 'european'
   Americas}

\* The region strings a region_map.csv row may hold: 'europe', 'Mars'.
MapValues == {<<101, 117, 114, 111, 112, 101>>, <<77, 97, 114, 115>>}

\* load_region_map keeps only rows whose stripped country and region are both
\* non-empty.  classify_region reads the table at two keys only, so the tables
\* drawn are those over these two keys.
MapKeys(country) ==
  {normalize_country_name(Str(Or(country, <<>>))), Strip(Str(Or(country, <<>>)))}
    \ {<<>>}

RegionMaps(country) ==
  UNION {[D -> MapValues] : D \in SUBSET MapKeys(country)}

(***************************************************************************)
(* The state machine                                                       *)
(***************************************************************************)

Init ==
  /\ op = "init"
  /\ arg = <<>>
  /\ loc = <<>>
  /\ ret = None

ClassifyRegion ==
  /\ op = "init"
  /\ \E country \in Countries, region_cell \in RegionCells :
       \E region_map \in RegionMaps(country) :
         /\ op' = "classify_region"
         /\ arg' = [country |-> country, region_cell |-> region_cell,
                    region_map |-> region_map]
         /\ loc' = [c0 |-> normalize_country_name(Str(Or(country, <<>>)))]
         /\ ret' = classify_region(country, region_cell, region_map)

NormalizeRegion ==
  /\ op = "init"
  /\ \E r \in RegionCells \cup MapValues \cup {REGION_ORDER[i] : i \in 1..5} :
       /\ op' = "normalize_region"
       /\ arg' = [r |-> r]
       /\ loc' = <<>>
       /\ ret' = normalize_region(r)

\* How many decorations precede the text of a country label.
MaxBullets == 3

\* ' '  '-'  the bullet U+2022  the flag of China (two regional indicators)
LabelUnits == {<<32>>, <<45>>, <<8226>>, <<127464, 127475>>}

RECURSIVE LabelPrefixes(_)
LabelPrefixes(n) ==
  IF n = 0 THEN {<<>>}
  ELSE LabelPrefixes(n - 1)
         \cup {u \o p : u \in LabelUnits, p \in LabelPrefixes(n - 1)}

\* Labels such as '- -x', '• - 中国', ' 🇨🇳 中国 ': decorations, then '', 'x',
\* '中国' or '中国 ' .
CountryLabels ==
  {p \o w : p \in LabelPrefixes(MaxBullets),
            w \in {<<>>, <<120>>, <<20013, 22269>>, <<20013, 22269, 32>>}}

NormalizeCountryName ==
  /\ op = "init"
  /\ \E name \in CountryLabels :
       /\ op' = "normalize_country_name"
       /\ arg' = [name |-> name]
       /\ loc' = [s |-> RemoveAstral(RemoveFlagPairs(Strip(name)))]
       /\ ret' = normalize_country_name(name)

RegionNext == ClassifyRegion \/ NormalizeRegion \/ NormalizeCountryName

SpecRegion == Init /\ [][RegionNext]_vars


(***************************************************************************)
(* Properties of the region classification (SpecRegion)                    *)
(***************************************************************************)

Canonical == {Asia, Americas, Europe, Oceania, Other}

Classified == op = "classify_region"

\* The call's country matched no override key.
NoOverride == OverrideRegion(loc.c0) = None

C2_ClosedSet == Classified => ret \in Canonical

\* No country, an unrecognized region cell: Other.
C2_Witness ==
  /\ Classified
  /\ arg.country = None
  /\ arg.region_cell = <<65, 102, 114, 105, 99, 97>>
  /\ ret = Other

\* C3: a country label containing 'USP' in any letter case is classified Other,
\* whatever the region cell, the lookup table and the other keys it contains.
C3_UspAlwaysOther ==
  (Classified /\ Contains(<<85, 83, 80>>, Upper(Str(Or(arg.country, <<>>)))))
    => ret = Other

\* C4: with no override key, no region cell and no lookup row, the region is
\* the one inferred from the country text.
C4_InferredWhenNothingElse ==
  (/\ Classified
   /\ NoOverride
   /\ ~HintPresent(arg.region_cell)
   /\ LookupRegion(arg.country, loc.c0, arg.region_map) = None)
    => ret = infer_region(arg.country)

\* C5: with no override key and a non-blank region cell the result is the
\* cell's region alone; an unrecognized cell ('Africa') gives Other even when the
\* lookup table has a canonical region for the country.
C5_HintAlone ==
  (Classified /\ NoOverride /\ HintPresent(arg.region_cell))
    => /\ ret = HintRegion(arg.region_cell)
       /\ arg.region_cell = <<65, 102, 114, 105, 99, 97>> => ret = Other

\* 'Africa' in the region cell while the lookup table says 'europe'.
C5_Witness ==
  /\ Classified
  /\ NoOverride
  /\ arg.region_cell = <<65, 102, 114, 105, 99, 97>>
  /\ loc.c0 \in DOMAIN arg.region_map
  /\ normalize_region(arg.region_map[loc.c0]) = Europe
  /\ ret = Other

\* C6: with no override key and no region cell, the lookup table is read at the
\* normalized label, and at the stripped raw label only when that key is
\* missing; the value found is normalized.
C6_LookupOrder ==
  (Classified /\ NoOverride /\ ~HintPresent(arg.region_cell))
    => LET raw == Strip(Str(Or(arg.country, <<>>)))
           m == arg.region_map
       IN  IF loc.c0 \in DOMAIN m THEN ret = normalize_region(m[loc.c0])
           ELSE IF raw \in DOMAIN m THEN ret = normalize_region(m[raw])
           ELSE ret = Other

\* Both keys are in the table with different regions: the normalized key's wins.
C6_Witness ==
  /\ Classified
  /\ NoOverride
  /\ ~HintPresent(arg.region_cell)
  /\ LET raw == Strip(Str(Or(arg.country, <<>>)))
         m == arg.region_map
     IN  /\ raw # loc.c0
         /\ loc.c0 \in DOMAIN m
         /\ raw \in DOMAIN m
         /\ normalize_region(m[loc.c0]) # normalize_region(m[raw])
         /\ ret = normalize_region(m[loc.c0])

\* C7: normalize_region returns a canonical value unchanged, maps everything
\* into the five regions, and applying it twice is applying it once.
C7_NormalizeIdempotent ==
  op = "normalize_region" =>
    /\ ret \in Canonical
    /\ arg.r \in {Asia, Americas, Europe, Oceania} => ret = arg.r
    /\ normalize_region(ret) = ret

\* An English name that becomes a canonical value, which then stays.
C7_Witness ==
  /\ op = "normalize_region"
  /\ arg.r = <<78, 111, 114, 116, 104, 32, 65, 109, 101, 114, 105, 99, 97>>
  /\ ret = Americas

\* The labels and (lower-case) names the region cell is recognized by.
C8_Labels ==
  {<<65, 115, 105, 97>>, <<65, 115, 105, 97, 110>>,
   <<65, 109, 101, 114, 105, 99, 97, 115>>, <<65, 109, 101, 114, 105, 99, 97>>,
   <<78, 111, 114, 116, 104, 32, 65, 109, 101, 114, 105, 99, 97>>,
   <<83, 111, 117, 116, 104, 32, 65, 109, 101, 114, 105, 99, 97>>,
   <<69, 117, 114, 111, 112, 101>>, <<69, 117, 114, 111, 112, 101, 97, 110>>,
   <<79, 99, 101, 97, 110, 105, 97>>}

C8_Names ==
  {<<97, 115, 105, 97>>, <<97, 109, 101, 114, 105, 99, 97, 115>>, <<97, 109, 101, 114, 105, 99, 97>>,
   <<110, 111, 114, 116, 104, 32, 97, 109, 101, 114, 105, 99, 97>>,
   <<115, 111, 117, 116, 104, 32, 97, 109, 101, 114, 105, 99, 97>>,
   <<108, 97, 116, 105, 110, 32, 97, 109, 101, 114, 105, 99, 97>>,
   <<101, 117, 114, 111, 112, 101>>, <<101, 117>>, <<111, 99, 101, 97, 110, 105, 97>>}

\* C8: with no override key, the region cell 'Asia' gives Asia, 'North America'
\* and 'South America' Americas, 'EU' and 'European' Europe, 'Oceania' Oceania,
\* and a cell that is no synonym and no canonical value gives Other.
C8_Synonyms ==
  (Classified /\ NoOverride /\ HintPresent(arg.region_cell))
    => LET h == Strip(arg.region_cell)
       IN  /\ h = <<65, 115, 105, 97>> => ret = Asia
           /\ h = <<78, 111, 114, 116, 104, 32, 65, 109, 101, 114, 105, 99, 97>> => ret = Americas
           /\ h = <<83, 111, 117, 116, 104, 32, 65, 109, 101, 114, 105, 99, 97>> => ret = Americas
           /\ h = <<69, 85>> => ret = Europe
           /\ h = <<69, 117, 114, 111, 112, 101, 97, 110>> => ret = Europe
           /\ h = <<79, 99, 101, 97, 110, 105, 97>> => ret = Oceania
           /\ (h \notin C8_Labels /\ Lower(h) \notin C8_Names /\ h \notin Canonical)
                => ret = Other

\* 'Zedland' with the region cell 'European'.
C8_Witness ==
  /\ Classified
  /\ NoOverride
  /\ loc.c0 = <<90, 101, 100, 108, 97, 110, 100>>
  /\ arg.region_cell = <<69, 117, 114, 111, 112, 101, 97, 110>>
  /\ ret = Europe

(***************************************************************************)
(* Cell rendering                                                          *)
(***************************************************************************)

Dash == <<45>>   \* "-"

\* "".join(parts), by halves
RECURSIVE JoinRange(_, _, _)
JoinRange(parts, lo, hi) ==
  IF lo > hi THEN <<>>
  ELSE IF lo = hi THEN parts[lo]
  ELSE LET mid == (lo + hi) \div 2
       IN  JoinRange(parts, lo, mid) \o JoinRange(parts, mid + 1, hi)

Join(parts) == JoinRange(parts, 1, Len(parts))

\* s.replace(c, new) for a one-character c
ReplaceChar(s, c, new) ==
  Join([i \in 1..Len(s) |-> IF s[i] = c THEN new ELSE <<s[i]>>])

\* s.replace("\r\n", "\n"): the occurrences of CR LF cannot overlap, so each CR
\* followed by LF becomes LF and that LF is consumed.
ReplaceCrLf(s) ==
  Join([i \in 1..Len(s) |->
          IF s[i] = 13 /\ i < Len(s) /\ s[i + 1] = 10 THEN <<10>>
          ELSE IF s[i] = 10 /\ i > 1 /\ s[i - 1] = 13 THEN <<>>
          ELSE <<s[i]>>])

\* (mutant) the ampersand is left as it is
EscapeChar_AmpKept(c, quote) ==
  IF c = 60 THEN <<38, 108, 116, 59>>
  ELSE IF c = 62 THEN <<38, 103, 116, 59>>
  ELSE IF quote /\ c = 34 THEN <<38, 113, 117, 111, 116, 59>>
  ELSE IF quote /\ c = 39 THEN <<38, 35, 120, 50, 55, 59>>
  ELSE <<c>>

\* html.escape of one character: & < > always, " and ' with quote=True
EscapeChar(c, quote) ==
  IF c = 38 THEN <<38, 97, 109, 112, 59>>                 \* &amp;
  ELSE IF c = 60 THEN <<38, 108, 116, 59>>                \* &lt;
  ELSE IF c = 62 THEN <<38, 103, 116, 59>>                \* &gt;
  ELSE IF quote /\ c = 34 THEN <<38, 113, 117, 111, 116, 59>>   \* &quot;
  ELSE IF quote /\ c = 39 THEN <<38, 35, 120, 50, 55, 59>>  \* &#x27;
  ELSE <<c>>

\* (mutant) the quotes are never escaped, whatever quote says
HtmlEscape_QuoteIgnored(s, quote) == Join([i \in 1..Len(s) |-> EscapeChar(s[i], FALSE)])

\* html.escape(s, quote)
HtmlEscape(s, quote) == Join([i \in 1..Len(s) |-> EscapeChar(s[i], quote)])

\* (mutant) text is written as it is
escape_Raw(s) == IF s = None THEN <<>> ELSE Str(s)

escape(s) == IF s = None THEN <<>> ELSE HtmlEscape(Str(s), FALSE)

\* (mutant) only CR LF is normalized, a lone CR stays
NormalizeNewlines_CrKept(raw) == ReplaceCrLf(raw)

\* raw.replace("\r\n", "\n").replace("\r", "\n")
NormalizeNewlines(raw) == ReplaceChar(ReplaceCrLf(raw), 13, <<10>>)

\* [YNＹＮ] under re.IGNORECASE: Y N y n and the full-width four.
TokenChars == {89, 78, 121, 110, 65337, 65326, 65369, 65358}

\* [A-Za-z0-9] under re.IGNORECASE: a character whose lower or upper case is
\* in the class, which adds U+0130, U+0131, U+017F and U+212A (Kelvin sign).
LeftClass == (48..57) \cup (65..90) \cup (97..122) \cup {304, 305, 383, 8490}

\* (mutant) the token ends at a word boundary: any character that is no
\* letter or digit may follow it, as in 'Y,'
TokenAt_WordBoundary(s, i) ==
  /\ s[i] \in TokenChars
  /\ (i = 1 \/ s[i - 1] \notin LeftClass)
  /\ (i = Len(s) \/ s[i + 1] \notin LeftClass)

\* (mutant) a token glued to a letter or digit on its left matches too
TokenAt_NoLookbehind(s, i) ==
  /\ s[i] \in TokenChars
  /\ (i = Len(s) \/ s[i + 1] \in Whitespace)

\* The pattern (?<![A-Za-z0-9])([YNＹＮ])(?=\s|$) matches at position i.
\* ($ also matches before a final line feed, which \s matches anyway.)
TokenAt(s, i) ==
  /\ s[i] \in TokenChars
  /\ (i = 1 \/ s[i - 1] \notin LeftClass)
  /\ (i = Len(s) \/ s[i + 1] \in Whitespace)

\* The positions pat.finditer(s) yields: matches are one character long, so
\* they cannot overlap.
Matches(s) == {i \in 1..Len(s) : TokenAt(s, i)}

\* <span class="status"><span class="ico">{icon}</span></span>
IconFragment(icon) ==
  <<60, 115, 112, 97, 110, 32, 99, 108, 97, 115, 115, 61, 34, 115, 116, 97, 116, 117, 115, 34, 62>>
    \o <<60, 115, 112, 97, 110, 32, 99, 108, 97, 115, 115, 61, 34, 105, 99, 111, 34, 62>>
    \o icon
    \o <<60, 47, 115, 112, 97, 110, 62, 60, 47, 115, 112, 97, 110, 62>>

\* The loop over the matches: the text between two matches is escaped and a
\* match becomes a fragment with the icon its upper-cased character selects.
\* html.escape works character by character, so escaping the runs between the
\* matches is escaping each character that is not a match.
RenderTokens(s, svg_yes, svg_no) ==
  LET piece(i) ==
        IF TokenAt(s, i)
        THEN IconFragment(IF UpperChar(s[i]) \in {89, 65337} THEN svg_yes ELSE svg_no)
        ELSE escape(<<s[i]>>)
      out == Join([i \in 1..Len(s) |-> piece(i)])
      out2 == ReplaceChar(out, 10, <<60, 98, 114, 62>>)
  IN  IF Strip(out2) # <<>> THEN out2 ELSE Dash

\* (mutant) the blank test on the normalized cell is missing
render_status_NoBlankTest(cell, svg_yes, svg_no) ==
  IF cell = None THEN Dash
  ELSE RenderTokens(NormalizeNewlines(Str(cell)), svg_yes, svg_no)

render_status(cell, svg_yes, svg_no) ==
  IF cell = None THEN Dash
  ELSE LET s == NormalizeNewlines(Str(cell))
       IN  IF Strip(s) = <<>> THEN Dash
           ELSE RenderTokens(s, svg_yes, svg_no)

\* build_external_icon_svg(): the text
\*   <span class="ext"><svg viewBox="0 0 24 24" fill="none" xmlns=...>
\*   <path d="M14 3h7v7" .../><path d="M10 14L21 3" .../>
\*   <path d="M21 14v7H3V3h7" .../></svg></span>
build_external_icon_svg ==
  <<
    60, 115, 112, 97, 110, 32, 99, 108, 97, 115, 115, 61, 34, 101, 120, 116,
    34, 62, 60, 115, 118, 103, 32, 118, 105, 101, 119, 66, 111, 120, 61, 34,
    48, 32, 48, 32, 50, 52, 32, 50, 52, 34, 32, 102, 105, 108, 108, 61,
    34, 110, 111, 110, 101, 34, 32, 120, 109, 108, 110, 115, 61, 34, 104, 116,
    116, 112, 58, 47, 47, 119, 119, 119, 46, 119, 51, 46, 111, 114, 103, 47,
    50, 48, 48, 48, 47, 115, 118, 103, 34, 62, 60, 112, 97, 116, 104, 32,
    100, 61, 34, 77, 49, 52, 32, 51, 104, 55, 118, 55, 34, 32, 115, 116,
    114, 111, 107, 101, 61, 34, 99, 117, 114, 114, 101, 110, 116, 67, 111, 108,
    111, 114, 34, 32, 115, 116, 114, 111, 107, 101, 45, 119, 105, 100, 116, 104,
    61, 34, 50, 34, 32, 115, 116, 114, 111, 107, 101, 45, 108, 105, 110, 101,
    99, 97, 112, 61, 34, 114, 111, 117, 110, 100, 34, 32, 115, 116, 114, 111,
    107, 101, 45, 108, 105, 110, 101, 106, 111, 105, 110, 61, 34, 114, 111, 117,
    110, 100, 34, 47, 62, 60, 112, 97, 116, 104, 32, 100, 61, 34, 77, 49,
    48, 32, 49, 52, 76, 50, 49, 32, 51, 34, 32, 115, 116, 114, 111, 107,
    101, 61, 34, 99, 117, 114, 114, 101, 110, 116, 67, 111, 108, 111, 114, 34,
    32, 115, 116, 114, 111, 107, 101, 45, 119, 105, 100, 116, 104, 61, 34, 50,
    34, 32, 115, 116, 114, 111, 107, 101, 45, 108, 105, 110, 101, 99, 97, 112,
    61, 34, 114, 111, 117, 110, 100, 34, 32, 115, 116, 114, 111, 107, 101, 45,
    108, 105, 110, 101, 106, 111, 105, 110, 61, 34, 114, 111, 117, 110, 100, 34,
    47, 62, 60, 112, 97, 116, 104, 32, 100, 61, 34, 77, 50, 49, 32, 49,
    52, 118, 55, 72, 51, 86, 51, 104, 55, 34, 32, 115, 116, 114, 111, 107,
    101, 61, 34, 99, 117, 114, 114, 101, 110, 116, 67, 111, 108, 111, 114, 34,
    32, 115, 116, 114, 111, 107, 101, 45, 119, 105, 100, 116, 104, 61, 34, 50,
    34, 32, 115, 116, 114, 111, 107, 101, 45, 108, 105, 110, 101, 99, 97, 112,
    61, 34, 114, 111, 117, 110, 100, 34, 32, 115, 116, 114, 111, 107, 101, 45,
    108, 105, 110, 101, 106, 111, 105, 110, 61, 34, 114, 111, 117, 110, 100, 34,
    47, 62, 60, 47, 115, 118, 103, 62, 60, 47, 115, 112, 97, 110, 62
  >>

\* s.find(c): the first position of c (from 1), 0 when there is none
Find(s, c) ==
  IF \E i \in 1..Len(s) : s[i] = c
  THEN CHOOSE i \in 1..Len(s) : s[i] = c /\ \A j \in 1..(i - 1) : s[j] # c
  ELSE 0

\* s.find(sub) for a two-character sub
Find2(s, sub) ==
  LET at(i) == s[i] = sub[1] /\ s[i + 1] = sub[2]
  IN  IF \E i \in 1..(Len(s) - 1) : at(i)
      THEN CHOOSE i \in 1..(Len(s) - 1) : at(i) /\ \A j \in 1..(i - 1) : ~at(j)
      ELSE 0

AsciiAlpha == (65..90) \cup (97..122)

\* urllib.parse.scheme_chars: letters, digits and + - .
SchemeChars == AsciiAlpha \cup (48..57) \cup {43, 45, 46}

\* urlsplit's first steps: leading C0 controls and spaces are stripped, then
\* tab, CR and LF are removed everywhere.
UrlClean(url) ==
  SelectSeq(LStripChars(url, 0..32), LAMBDA c : c \notin {9, 10, 13})

\* urlsplit: a leading `scheme:` is split off when the text before the first
\* colon starts with an ASCII letter and is made of scheme characters.
UrlAfterScheme(url) ==
  LET i == Find(url, 58)
  IN  IF /\ i > 1
         /\ url[1] \in AsciiAlpha
         /\ \A j \in 1..(i - 1) : url[j] \in SchemeChars
      THEN SubSeq(url, i + 1, Len(url))
      ELSE url

\* urlsplit with _splitnetloc: after '//' the netloc runs to the first of / ? #.
UrlNetloc(url) ==
  LET rest == UrlAfterScheme(UrlClean(url))
      n == Len(rest)
      ends == {i \in 3..n : rest[i] \in {47, 63, 35}}
      delim == IF ends = {} THEN n + 1
               ELSE CHOOSE i \in ends : \A j \in ends : i <= j
  IN  IF n >= 2 /\ rest[1] = 47 /\ rest[2] = 47
      THEN SubSeq(rest, 3, delim - 1)
      ELSE <<>>

\* The bracketed hosts urlsplit accepts (_check_bracketed_host: an IPv6 or
\* IPvFuture address); among the URLs of the model only '::1' is one.
ValidBracketedHosts == {<<58, 58, 49>>}

\* urlsplit raises ValueError: one bracket without the other in the netloc, or
\* a bracketed host that is no IPv6 address.  (Its NFKC check concerns
\* non-ASCII netlocs only.)
UrlParseFails(url) ==
  LET netloc == UrlNetloc(url)
      open == Find(netloc, 91)
      close == Find(netloc, 93)
      after == SubSeq(netloc, open + 1, Len(netloc))
      host == IF Find(after, 93) = 0 THEN after
              ELSE SubSeq(after, 1, Find(after, 93) - 1)
  IN  \/ open # 0 /\ close = 0
      \/ open = 0 /\ close # 0
      \/ open # 0 /\ close # 0 /\ host \notin ValidBracketedHosts

\* raw.split("//", 1)[-1].split("/", 1)[0]
HostByText(raw) ==
  LET i == Find2(raw, <<47, 47>>)
      raw2 == IF i = 0 THEN raw ELSE SubSeq(raw, i + 2, Len(raw))
      j == Find(raw2, 47)
  IN  IF j = 0 THEN raw2 ELSE SubSeq(raw2, 1, j - 1)

\* (mutant) a URL that fails to parse gets an empty label
derive_host_FailureEmpty(raw) ==
  LET https == <<104, 116, 116, 112, 115, 58, 47, 47>> \o raw
  IN  IF UrlParseFails(raw) THEN <<>>
      ELSE IF UrlNetloc(raw) # <<>> THEN UrlNetloc(raw)
      ELSE IF UrlParseFails(https) THEN <<>>
      ELSE IF UrlNetloc(https) # <<>> THEN UrlNetloc(https)
      ELSE HostByText(raw)

\* render_link.derive_host: the netloc of the URL, else of 'https://' + URL,
\* else (also when parsing raises) the text after '//' up to the next '/'.
derive_host(raw) ==
  LET https == <<104, 116, 116, 112, 115, 58, 47, 47>> \o raw
  IN  IF UrlParseFails(raw) THEN HostByText(raw)
      ELSE IF UrlNetloc(raw) # <<>> THEN UrlNetloc(raw)
      ELSE IF UrlParseFails(https) THEN HostByText(raw)
      ELSE IF UrlNetloc(https) # <<>> THEN UrlNetloc(https)
      ELSE HostByText(raw)

\* (mutant) the cell is split at its last pipe (rsplit)
render_link_SplitLast(url, svg_external) ==
  LET u == Strip(IF url = None THEN <<>> ELSE Str(url))
      bar == IF Find(u, 124) = 0 THEN 0
             ELSE CHOOSE i \in 1..Len(u) : u[i] = 124 /\ \A j \in (i + 1)..Len(u) : u[j] # 124
      raw_url == IF bar = 0 THEN u ELSE Strip(SubSeq(u, 1, bar - 1))
      title == IF bar = 0 THEN <<>> ELSE Strip(SubSeq(u, bar + 1, Len(u)))
      safe_u == HtmlEscape(raw_url, TRUE)
      label_txt == IF Strip(title) # <<>> THEN Strip(title) ELSE derive_host(raw_url)
      label == Strip(svg_external \o <<32>> \o escape(label_txt))
  IN  IF u = <<>> THEN Dash
      ELSE <<60, 97, 32, 104, 114, 101, 102, 61, 34>> \o safe_u
             \o <<34, 32, 116, 97, 114, 103, 101, 116, 61, 34, 95, 98, 108, 97, 110, 107, 34, 32, 114, 101, 108, 61, 34, 110, 111, 111, 112, 101, 110, 101, 114, 34, 62>>
             \o label \o <<60, 47, 97, 62>>

render_link(url, svg_external) ==
  LET u == Strip(IF url = None THEN <<>> ELSE Str(url))
      bar == Find(u, 124)
      raw_url == IF bar = 0 THEN u ELSE Strip(SubSeq(u, 1, bar - 1))
      title == IF bar = 0 THEN <<>> ELSE Strip(SubSeq(u, bar + 1, Len(u)))
      safe_u == HtmlEscape(raw_url, TRUE)
      label_txt == IF Strip(title) # <<>> THEN Strip(title) ELSE derive_host(raw_url)
      label == Strip(svg_external \o <<32>> \o escape(label_txt))
  IN  IF u = <<>> THEN Dash
      ELSE <<60, 97, 32, 104, 114, 101, 102, 61, 34>> \o safe_u
             \o <<34, 32, 116, 97, 114, 103, 101, 116, 61, 34, 95, 98, 108, 97, 110, 107, 34, 32, 114, 101, 108, 61, 34, 110, 111, 111, 112, 101, 110, 101, 114, 34, 62>>
             \o label \o <<60, 47, 97, 62>>

(***************************************************************************)
(* Inputs of the renderers                                                 *)
(***************************************************************************)

\* The longest status cell built from CellAlphabet.
MaxCellLen == 3

\* Y n Ｎ ｙ (tokens), E 5 and the Kelvin sign (what a token may be glued to),
\* space LF CR (whitespace), and < & , (text).
CellAlphabet == {89, 110, 65326, 65369, 69, 53, 8490, 32, 10, 13, 60, 38, 44}

RECURSIVE Strings(_, _)
Strings(alphabet, n) ==
  IF n = 0 THEN {<<>>}
  ELSE Strings(alphabet, n - 1)
         \cup {<<c>> \o s : c \in alphabet, s \in Strings(alphabet, n - 1)}

StatusSamples ==
  {<<89, 69, 83>>,                                  \* 'YES'
   <<78, 79>>,                                      \* 'NO'
   <<79, 75, 65, 89, 32, 100, 111, 110, 101>>,       \* 'OKAY done'
   <<89, 32, 97, 112, 112, 114, 111, 118, 101, 100, 10, 78, 32, 114, 101, 115, 116, 114, 105, 99, 116, 101, 100>>,  \* 'Y approved\nN restricted'
   <<89, 13, 10, 78, 13, 89>>,                   \* 'Y\r\nN\rY'
   <<32, 9, 13, 10, 32>>}                       \* ' \t\r\n '

StatusCells == {None} \cup Strings(CellAlphabet, MaxCellLen) \cup StatusSamples

\* svg_to_inline(yes.svg), svg_to_inline(no.svg): one-line icons and icons whose
\* markup spans two lines.
IconPairs ==
  {<<<<60, 115, 118, 103, 62, 121, 60, 47, 115, 118, 103, 62>>,
     <<60, 115, 118, 103, 62, 110, 60, 47, 115, 118, 103, 62>>>>,
   <<<<60, 115, 118, 103, 62, 10, 121, 60, 47, 115, 118, 103, 62>>,
     <<60, 115, 118, 103, 62, 10, 110, 60, 47, 115, 118, 103, 62>>>>}

\* How many fragments a link cell is made of.
MaxUrlParts == 3

\* 'https:'  '//'  '/'  'x.org'  'p'  ' '  '|'  '"'  "'"  '<'  '&'  '['
UrlFragments ==
  {<<104, 116, 116, 112, 115, 58>>, <<47, 47>>, <<47>>, <<120, 46, 111, 114, 103>>,
   <<112>>, <<32>>, <<124>>, <<34>>, <<39>>, <<60>>, <<38>>, <<91>>}

RECURSIVE FragmentSeqs(_)
FragmentSeqs(n) ==
  IF n = 0 THEN {<<>>}
  ELSE FragmentSeqs(n - 1)
         \cup {f \o s : f \in UrlFragments, s \in FragmentSeqs(n - 1)}

LinkSamples ==
  {<<101, 120, 97, 109, 112, 108, 101, 46, 99, 111, 109, 47, 97, 47, 98>>,  \* 'example.com/a/b'
   <<104, 116, 116, 112, 115, 58, 47, 47, 120, 46, 111, 114, 103, 47, 112, 32, 124, 32, 77, 121, 32, 84, 105, 116, 108, 101>>,  \* 'https://x.org/p | My Title'
   <<104, 116, 116, 112, 115, 58, 47, 47, 120, 46, 111, 114, 103, 47, 112, 124, 97, 124, 98>>,  \* 'https://x.org/p|a|b'
   <<124, 32, 77, 121, 32, 84, 105, 116, 108, 101>>,  \* '| My Title'
   <<104, 116, 116, 112, 58, 47, 47, 91, 58, 58, 49, 93, 47, 112>>,  \* 'http://[::1]/p'
   <<104, 116, 116, 112, 58, 47, 47, 120, 93, 47, 112>>,  \* 'http://x]/p'
   <<120, 46, 111, 114, 103, 63, 113, 61, 47, 97>>,  \* 'x.org?q=/a'
   <<97, 62, 98, 35, 99>>,  \* 'a>b#c'
   <<47, 120, 47, 47, 121, 47, 122>>,  \* '/x//y/z'
   <<104, 116, 116, 112, 115, 58, 47, 47, 120, 46, 111, 114, 103, 47, 112>>,  \* 'https://x.org/p'
   <<32, 9, 10, 32>>}  \* ' \t\n '

LinkCells == {None} \cup FragmentSeqs(MaxUrlParts) \cup LinkSamples

(***************************************************************************)
(* The renderers' calls                                                    *)
(***************************************************************************)

RenderStatus ==
  /\ op = "init"
  /\ \E cell \in StatusCells, icons \in IconPairs :
       /\ op' = "render_status"
       /\ arg' = [cell |-> cell, svg_yes |-> icons[1], svg_no |-> icons[2]]
       /\ loc' = LET s == IF cell = None THEN <<>> ELSE NormalizeNewlines(Str(cell))
                 IN  [s |-> s,
                      matches |-> IF Strip(s) = <<>> THEN {} ELSE Matches(s)]
       /\ ret' = render_status(cell, icons[1], icons[2])

RenderLink ==
  /\ op = "init"
  /\ \E url \in LinkCells :
       /\ op' = "render_link"
       /\ arg' = [url |-> url, svg_external |-> build_external_icon_svg]
       /\ loc' = LET u == Strip(IF url = None THEN <<>> ELSE Str(url))
                     bar == Find(u, 124)
                     raw_url == IF bar = 0 THEN u ELSE Strip(SubSeq(u, 1, bar - 1))
                     title == IF bar = 0 THEN <<>> ELSE Strip(SubSeq(u, bar + 1, Len(u)))
                 IN  [u |-> u,
                      raw_url |-> raw_url,
                      label_txt |-> IF title # <<>> THEN title ELSE derive_host(raw_url)]
       /\ ret' = render_link(url, build_external_icon_svg)

RenderNext == RenderStatus \/ RenderLink

SpecRender == Init /\ [][RenderNext]_vars

(***************************************************************************)
(* Sheets: from the rows of a worksheet to records                         *)
(***************************************************************************)

\* What a call leaves in ret when it raises.
TypeError == << -2 >>

SystemExit == << -3 >>

\* The column names: Country, 食品, f_link, 保健品/膳食补充剂, s_link, 药品,
\* d_link, 动物食品, fe_link, Region.
DEFAULT_COLUMNS ==
  [country |-> <<67, 111, 117, 110, 116, 114, 121>>,
   food |-> <<39135, 21697>>,
   f_link |-> <<102, 95, 108, 105, 110, 107>>,
   supp |-> <<20445, 20581, 21697, 47, 33203, 39135, 34917, 20805, 21058>>,
   s_link |-> <<115, 95, 108, 105, 110, 107>>,
   drug |-> <<33647, 21697>>,
   d_link |-> <<100, 95, 108, 105, 110, 107>>,
   feed |-> <<21160, 29289, 39135, 21697>>,
   fe_link |-> <<102, 101, 95, 108, 105, 110, 107>>,
   region |-> <<82, 101, 103, 105, 111, 110>>]

\* idx = {h: i for i, h in enumerate(headers)}: of two columns with one name
\* the later one stays.  (Columns are counted from 1 here.)
Idx(headers) ==
  [h \in {headers[i] : i \in 1..Len(headers)} |->
     CHOOSE i \in 1..Len(headers) :
       headers[i] = h /\ \A j \in (i + 1)..Len(headers) : headers[j] # h]

\* sheet_rows_compliance.get(row, col)
Get(idx, row, col) == IF col \notin DOMAIN idx THEN None ELSE row[idx[col]]

\* any(v is not None and str(v).strip() for v in r)
RowHasValue(r) == \E i \in 1..Len(r) : r[i] # None /\ Strip(Str(r[i])) # <<>>

\* not country or not str(country).strip()
CountryMissing(country) ==
  country = None \/ country = <<>> \/ Strip(Str(country)) = <<>>

\* ws stands for ws.iter_rows(min_row=2, values_only=True): the rows below the
\* header row, each a tuple of cell values.
sheet_rows_compliance(ws, headers) ==
  LET idx == Idx(headers)
      get(r, col) == Get(idx, r, col)
      kept == SelectSeq(ws, LAMBDA r :
                RowHasValue(r) /\ ~CountryMissing(get(r, DEFAULT_COLUMNS.country)))
  IN  [k \in 1..Len(kept) |->
         [country |-> Strip(Str(get(kept[k], DEFAULT_COLUMNS.country))),
          region |-> get(kept[k], DEFAULT_COLUMNS.region),
          food |-> get(kept[k], DEFAULT_COLUMNS.food),
          f_link |-> get(kept[k], DEFAULT_COLUMNS.f_link),
          supp |-> get(kept[k], DEFAULT_COLUMNS.supp),
          s_link |-> get(kept[k], DEFAULT_COLUMNS.s_link),
          drug |-> get(kept[k], DEFAULT_COLUMNS.drug),
          d_link |-> get(kept[k], DEFAULT_COLUMNS.d_link),
          feed |-> get(kept[k], DEFAULT_COLUMNS.feed),
          fe_link |-> get(kept[k], DEFAULT_COLUMNS.fe_link)]]

\* The keys 'country' and 'region' of a record of a dynamic sheet; its other
\* keys are the names of the display columns.
KeyCountry == <<99, 111, 117, 110, 116, 114, 121>>

KeyRegion == <<114, 101, 103, 105, 111, 110>>

\* [h for h in headers if h not in ("Country", "Region") and h is not None]
DisplayCols(headers) ==
  SelectSeq(headers, LAMBDA h :
    h \notin {DEFAULT_COLUMNS.country, DEFAULT_COLUMNS.region} /\ h # None)

\* The dict of one kept row: 'country' and 'region' are set first, then one
\* key per display column, which replaces a key of the same name.
DynamicRecord(r, idx, display_cols) ==
  LET cols == {display_cols[i] : i \in 1..Len(display_cols)}
  IN  [k \in {KeyCountry, KeyRegion} \cup cols |->
         IF k \in cols THEN r[idx[k]]
         ELSE IF k = KeyCountry THEN Strip(Str(r[idx[DEFAULT_COLUMNS.country]]))
         ELSE Get(idx, r, DEFAULT_COLUMNS.region)]

\* Returns the records and the display columns, or raises SystemExit when the
\* sheet has no Country column.
sheet_rows_dynamic(ws, headers) ==
  LET idx == Idx(headers)
      display_cols == DisplayCols(headers)
      kept == SelectSeq(ws, LAMBDA r :
                RowHasValue(r) /\ ~CountryMissing(r[idx[DEFAULT_COLUMNS.country]]))
  IN  IF DEFAULT_COLUMNS.country \notin DOMAIN idx THEN SystemExit
      ELSE [rows |-> [k \in 1..Len(kept) |-> DynamicRecord(kept[k], idx, display_cols)],
            display_cols |-> display_cols]

(***************************************************************************)
(* Page bodies: records grouped by region                                  *)
(***************************************************************************)

\* r.get(key) for a record of a dynamic sheet
DictGetOr(r, key, d) == IF key \in DOMAIN r THEN r[key] ELSE d

\* a < b for two str: by code points, a proper prefix first
RECURSIVE StrLess(_, _)
StrLess(a, b) ==
  IF b = <<>> THEN FALSE
  ELSE IF a = <<>> THEN TRUE
  ELSE IF a[1] # b[1] THEN a[1] < b[1]
  ELSE StrLess(Tail(a), Tail(b))

\* (mutant) the sort puts the later of two records with one key first
SortByKey_TiesReversed(items, keys) ==
  LET n == Len(items)
      pos(i) == 1 + Cardinality({j \in 1..n :
                      \/ StrLess(keys[j], keys[i])
                      \/ keys[j] = keys[i] /\ j > i})
  IN  [p \in 1..n |-> items[CHOOSE i \in 1..n : pos(i) = p]]

\* items.sort(key=...) with keys[i] the key of items[i]: list.sort is stable,
\* so an item goes after the items of smaller key and after the earlier items
\* of the same key.
SortByKey(items, keys) ==
  LET n == Len(items)
      pos(i) == 1 + Cardinality({j \in 1..n :
                      \/ StrLess(keys[j], keys[i])
                      \/ keys[j] = keys[i] /\ j < i})
  IN  [p \in 1..n |-> items[CHOOSE i \in 1..n : pos(i) = p]]

\* The first loop of build_body_*: region = classify_region(r["country"],
\* r.get("region"), region_map) for each row; countries[i] and hints[i] are
\* r["country"] and r.get("region") of rows[i].
RegionsOf(countries, hints, region_map) ==
  [i \in 1..Len(countries) |-> classify_region(countries[i], hints[i], region_map)]

\* (mutant) a region keeps one record of each country
Grouped_OnePerCountry(rows, countries, regions) ==
  [reg \in {REGION_ORDER[i] : i \in 1..Len(REGION_ORDER)} |->
     LET at == SelectSeq([i \in 1..Len(rows) |-> i],
                         LAMBDA i : /\ regions[i] = reg
                                    /\ \A j \in 1..(i - 1) :
                                         ~(regions[j] = reg /\ countries[j] = countries[i]))
     IN  SortByKey([k \in 1..Len(at) |-> rows[at[k]]],
                   [k \in 1..Len(at) |-> countries[at[k]]])]

\* grouped after the two loops: for each region (the dict is seeded with the
\* five of REGION_ORDER, and classify_region returns no other) the rows
\* classified to it in input order, then sorted by country.
Grouped(rows, countries, regions) ==
  [reg \in {REGION_ORDER[i] : i \in 1..Len(REGION_ORDER)} |->
     LET at == SelectSeq([i \in 1..Len(rows) |-> i], LAMBDA i : regions[i] = reg)
     IN  SortByKey([k \in 1..Len(at) |-> rows[at[k]]],
                   [k \in 1..Len(at) |-> countries[at[k]]])]

\* str(n) for a natural number
RECURSIVE IntToStr(_)
IntToStr(n) ==
  IF n < 10 THEN <<48 + n>>
  ELSE IntToStr(n \div 10) \o <<48 + (n % 10)>>

\* sep.join(parts)
JoinSep(parts, sep) ==
  Join([i \in 1..Len(parts) |-> IF i = 1 THEN parts[i] ELSE sep \o parts[i]])

\* <details class="group"><summary><span>{escape(reg)}</span>
\* <span class="badge">{len(items)} countries</span></summary>
GroupOpen(reg, n) ==
  <<60, 100, 101, 116, 97, 105, 108, 115, 32, 99, 108, 97, 115, 115, 61, 34, 103, 114, 111, 117, 112, 34, 62, 60, 115, 117, 109, 109, 97, 114, 121, 62, 60, 115, 112, 97, 110, 62>> \o escape(reg)
    \o <<60, 47, 115, 112, 97, 110, 62, 60, 115, 112, 97, 110, 32, 99, 108, 97, 115, 115, 61, 34, 98, 97, 100, 103, 101, 34, 62>> \o IntToStr(n)
    \o <<32, 99, 111, 117, 110, 116, 114, 105, 101, 115, 60, 47, 115, 112, 97, 110, 62, 60, 47, 115, 117, 109, 109, 97, 114, 121, 62>>

GroupClose == <<60, 47, 100, 101, 116, 97, 105, 108, 115, 62>>

\* (mutant) a region without records gets its section too
Sections_EmptyKept(entries) ==
  Join([g \in 1..Len(REGION_ORDER) |->
          LET items == entries[REGION_ORDER[g]]
          IN  <<GroupOpen(REGION_ORDER[g], Len(items))>> \o items \o <<GroupClose>>])

\* (mutant) the sections come in the alphabetical order of the regions'
\* English names: Americas, Asia, Europe, Oceania, Other
Sections_Alphabetical(entries) ==
  LET order == <<Americas, Asia, Europe, Oceania, Other>>
  IN  Join([g \in 1..Len(order) |->
              LET items == entries[order[g]]
              IN  IF items = <<>> THEN <<>>
                  ELSE <<GroupOpen(order[g], Len(items))>> \o items \o <<GroupClose>>])

\* parts after the loop over REGION_ORDER, entries[reg] being the entries of
\* the records of reg in their sorted order: for each region with records its
\* opening, its entries and its closing.
Sections(entries) ==
  Join([g \in 1..Len(REGION_ORDER) |->
          LET items == entries[REGION_ORDER[g]]
          IN  IF items = <<>> THEN <<>>
              ELSE <<GroupOpen(REGION_ORDER[g], Len(items))>> \o items \o <<GroupClose>>])

\* The entry of one record of a compliance sheet: render_status for its four
\* status cells and render_link for its four link cells, in the order of the
\* columns.
ComplianceEntry(r, svg_yes, svg_no) ==
  LET ext_icon == build_external_icon_svg
      status == <<r.food, r.supp, r.drug, r.feed>>
      links == <<r.f_link, r.s_link, r.d_link, r.fe_link>>
      hay == JoinSep(<<Or(r.country, <<>>)>>
                       \o [i \in 1..4 |-> Str(Or(status[i], <<>>))]
                       \o [i \in 1..4 |-> Str(Or(links[i], <<>>))],
                     <<32, 124, 32>>)
  IN  <<60, 100, 101, 116, 97, 105, 108, 115, 32, 99, 108, 97, 115, 115, 61, 34, 99, 111, 117, 110, 116, 114, 121, 34, 32, 100, 97, 116, 97, 45, 104, 97, 121, 61, 34>> \o HtmlEscape(hay, TRUE) \o <<34, 62>>
        \o <<60, 115, 117, 109, 109, 97, 114, 121, 62, 60, 115, 112, 97, 110, 62>> \o escape(r.country) \o <<60, 47, 115, 112, 97, 110, 62, 60, 47, 115, 117, 109, 109, 97, 114, 121, 62>>
        \o <<60, 100, 105, 118, 32, 99, 108, 97, 115, 115, 61, 34, 99, 111, 110, 116, 101, 110, 116, 34, 62>>
        \o <<60, 100, 105, 118, 32, 99, 108, 97, 115, 115, 61, 34, 103, 114, 105, 100, 34, 62>>
        \o <<60, 100, 105, 118, 32, 99, 108, 97, 115, 115, 61, 34, 99, 101, 108, 108, 45, 116, 105, 116, 108, 101, 34, 62, 39135, 21697, 60, 47, 100, 105, 118, 62>>
        \o <<60, 100, 105, 118, 32, 99, 108, 97, 115, 115, 61, 34, 99, 101, 108, 108, 45, 116, 105, 116, 108, 101, 34, 62, 20445, 20581, 21697, 47, 33203, 39135, 34917, 20805, 21058, 60, 47, 100, 105, 118, 62>>
        \o <<60, 100, 105, 118, 32, 99, 108, 97, 115, 115, 61, 34, 99, 101, 108, 108, 45, 116, 105, 116, 108, 101, 34, 62, 33647, 21697, 60, 47, 100, 105, 118, 62>>
        \o <<60, 100, 105, 118, 32, 99, 108, 97, 115, 115, 61, 34, 99, 101, 108, 108, 45, 116, 105, 116, 108, 101, 34, 62, 21160, 29289, 39135, 21697, 60, 47, 100, 105, 118, 62>>
        \o Join([i \in 1..4 |->
                   <<60, 100, 105, 118, 32, 99, 108, 97, 115, 115, 61, 34, 99, 101, 108, 108, 34, 62>> \o render_status(status[i], svg_yes, svg_no)
                     \o <<60, 47, 100, 105, 118, 62>>])
        \o <<60, 47, 100, 105, 118, 62>>
        \o <<60, 100, 105, 118, 32, 99, 108, 97, 115, 115, 61, 34, 108, 105, 110, 107, 115, 34, 62>>
        \o Join([i \in 1..4 |->
                   <<60, 100, 105, 118, 62>> \o render_link(links[i], ext_icon) \o <<60, 47, 100, 105, 118, 62>>])
        \o <<60, 47, 100, 105, 118, 62>>
        \o <<60, 47, 100, 105, 118, 62>>
        \o <<60, 47, 100, 101, 116, 97, 105, 108, 115, 62>>

\* The entry of one record of a dynamic sheet.
DynamicEntry(r, display_cols, svg_yes, svg_no) ==
  LET col_n == IF Len(display_cols) > 1 THEN Len(display_cols) ELSE 1
      titles_html ==
        Join([i \in 1..Len(display_cols) |->
                <<60, 100, 105, 118, 32, 99, 108, 97, 115, 115, 61, 34, 99, 101, 108, 108, 45, 116, 105, 116, 108, 101, 34, 62>> \o escape(display_cols[i]) \o <<60, 47, 100, 105, 118, 62>>])
      cells_html ==
        Join([i \in 1..Len(display_cols) |->
                <<60, 100, 105, 118, 32, 99, 108, 97, 115, 115, 61, 34, 99, 101, 108, 108, 34, 62>>
                  \o render_status(DictGetOr(r, display_cols[i], None), svg_yes, svg_no)
                  \o <<60, 47, 100, 105, 118, 62>>])
      hay == JoinSep(<<DictGetOr(r, KeyCountry, <<>>)>>
                       \o [i \in 1..Len(display_cols) |->
                             Str(Or(DictGetOr(r, display_cols[i], None), <<>>))],
                     <<32, 124, 32>>)
  IN  <<60, 100, 101, 116, 97, 105, 108, 115, 32, 99, 108, 97, 115, 115, 61, 34, 99, 111, 117, 110, 116, 114, 121, 34, 32, 100, 97, 116, 97, 45, 104, 97, 121, 61, 34>> \o HtmlEscape(hay, TRUE) \o <<34, 62>>
        \o <<60, 115, 117, 109, 109, 97, 114, 121, 62, 60, 115, 112, 97, 110, 62>> \o escape(r[KeyCountry]) \o <<60, 47, 115, 112, 97, 110, 62, 60, 47, 115, 117, 109, 109, 97, 114, 121, 62>>
        \o <<60, 100, 105, 118, 32, 99, 108, 97, 115, 115, 61, 34, 99, 111, 110, 116, 101, 110, 116, 34, 62>>
        \o <<60, 100, 105, 118, 32, 99, 108, 97, 115, 115, 61, 34, 103, 114, 105, 100, 34, 32, 115, 116, 121, 108, 101, 61, 34, 103, 114, 105, 100, 45, 116, 101, 109, 112, 108, 97, 116, 101, 45, 99, 111, 108, 117, 109, 110, 115, 58, 32, 114, 101, 112, 101, 97, 116, 40>>
        \o IntToStr(col_n) \o <<44, 32, 49, 102, 114, 41, 59, 34, 62>>
        \o titles_html \o cells_html
        \o <<60, 47, 100, 105, 118, 62>>
        \o <<60, 47, 100, 105, 118, 62>>
        \o <<60, 47, 100, 101, 116, 97, 105, 108, 115, 62>>

(***************************************************************************)
(* Inputs of the sheets and the page bodies                                *)
(***************************************************************************)

\* How many rows a worksheet has below its header row.
MaxSheetRows == 2

\* How many records a page body is built from.
MaxRows == 3

\* The name of the display column of the dynamic sheets: 'R&D<"'
NoteColumn == <<82, 38, 68, 60, 34>>

\* The header rows of the compliance sheets: the nine required columns after
\* Country and Region, and the same without the optional Region.
ComplianceHeaders ==
  LET c == DEFAULT_COLUMNS
      rest == <<c.food, c.f_link, c.supp, c.s_link, c.drug, c.d_link, c.feed, c.fe_link>>
  IN  {<<c.country, c.region>> \o rest, <<c.country>> \o rest}

\* The header rows of the dynamic sheets: Country, Region and a display
\* column; a display column named 'country'; a column without a name; no
\* Country column.
DynamicHeaders ==
  {<<DEFAULT_COLUMNS.country, DEFAULT_COLUMNS.region, NoteColumn>>,
   <<DEFAULT_COLUMNS.country, KeyCountry, NoteColumn>>,
   <<DEFAULT_COLUMNS.country, None, NoteColumn>>,
   <<NoteColumn>>}

\* The Country cell of a row: absent, '', ' ', ' Chile ', 'Japan'.
CountryCells == {None, <<>>, <<32>>, <<32, 67, 104, 105, 108, 101, 32>>, <<74, 97, 112, 97, 110>>}

\* The rows under a header row: the Country cell is one of CountryCells and
\* the other cells are all absent or all filled ('Asia' under Region, ' peru '
\* under 'country', 'Y' elsewhere).
SheetRows(headers) ==
  {[i \in 1..Len(headers) |->
      IF headers[i] = DEFAULT_COLUMNS.country THEN country
      ELSE IF ~filled THEN None
      ELSE IF headers[i] = DEFAULT_COLUMNS.region THEN <<65, 115, 105, 97>>
      ELSE IF headers[i] = KeyCountry THEN <<32, 112, 101, 114, 117, 32>>
      ELSE <<89>>] :
     country \in CountryCells, filled \in BOOLEAN}

\* A record of a compliance sheet with the cells the model varies.
ComplianceRecord(country, region, food, f_link) ==
  [country |-> country, region |-> region, food |-> food, f_link |-> f_link,
   supp |-> None, s_link |-> None, drug |-> None, d_link |-> None,
   feed |-> None, fe_link |-> None]

\* Records as sheet_rows_compliance returns them: Zedland; Austria twice,
\* with the region cell 'Europe' and different cells; albania (lower case,
\* region cell 'Europe'); 美国 and Australia, which the override table
\* places; and a record whose texts hold markup characters: the country
\* '中国<b>&"C', which the override table places by the key it holds, with
\* the food cell '<b>Y "&' and the link cell '"x<b>&|<i>"&'.
ComplianceRecords ==
  {ComplianceRecord(<<90, 101, 100, 108, 97, 110, 100>>, None, None, None),
   ComplianceRecord(<<65, 117, 115, 116, 114, 105, 97>>, <<69, 117, 114, 111, 112, 101>>, <<89>>, None),
   ComplianceRecord(<<65, 117, 115, 116, 114, 105, 97>>, <<69, 117, 114, 111, 112, 101>>, <<78>>, None),
   ComplianceRecord(<<97, 108, 98, 97, 110, 105, 97>>, <<69, 117, 114, 111, 112, 101>>, None, None),
   ComplianceRecord(<<20013, 22269, 60, 98, 62, 38, 34, 67>>, None, <<60, 98, 62, 89, 32, 34, 38>>, <<34, 120, 60, 98, 62, 38, 124, 60, 105, 62, 34, 38>>),
   ComplianceRecord(<<32654, 22269>>, None, None, None),
   ComplianceRecord(<<65, 117, 115, 116, 114, 97, 108, 105, 97>>, None, None, None)}

\* A record of a dynamic sheet whose display column is NoteColumn.
DynamicRecordOf(country, region, note) ==
  [k \in {KeyCountry, KeyRegion, NoteColumn} |->
     IF k = KeyCountry THEN country ELSE IF k = KeyRegion THEN region ELSE note]

\* What sheet_rows_dynamic returns: the display columns with the records a
\* sheet of these columns gives.  With the one display column the records are
\* Zedland, Austria twice and the record of markup characters, as in
\* ComplianceRecords; with a display column named 'country' the key 'country'
\* holds that column's cell as it is: absent, ' peru ', 'Austria'.
DynamicSheets ==
  {[display_cols |-> <<NoteColumn>>,
    records |-> {DynamicRecordOf(<<90, 101, 100, 108, 97, 110, 100>>, None, None),
                 DynamicRecordOf(<<65, 117, 115, 116, 114, 105, 97>>, <<69, 117, 114, 111, 112, 101>>, <<89>>),
                 DynamicRecordOf(<<65, 117, 115, 116, 114, 105, 97>>, <<69, 117, 114, 111, 112, 101>>, <<78>>),
                 DynamicRecordOf(<<20013, 22269, 60, 98, 62, 38, 34, 67>>, None, <<60, 98, 62, 89, 32, 34, 38>>)}],
   [display_cols |-> <<KeyCountry, NoteColumn>>,
    records |-> {DynamicRecordOf(None, None, <<89>>),
                 DynamicRecordOf(<<32, 112, 101, 114, 117, 32>>, None, <<89>>),
                 DynamicRecordOf(<<65, 117, 115, 116, 114, 105, 97>>, None, None)}]}

\* load_region_map(region_map.csv): no table, and one that places Zedland in
\* 'europe'.
BodyRegionMaps ==
  {[k \in {} |-> <<>>], [k \in {<<90, 101, 100, 108, 97, 110, 100>>} |-> <<101, 117, 114, 111, 112, 101>>]}

\* svg_to_inline of yes.svg and no.svg
BodyIcons == <<<<60, 115, 118, 103, 62, 121, 60, 47, 115, 118, 103, 62>>, <<60, 115, 118, 103, 62, 110, 60, 47, 115, 118, 103, 62>>>>

(***************************************************************************)
(* The calls that build a page                                             *)
(***************************************************************************)

SheetRowsCompliance ==
  /\ op = "init"
  /\ \E headers \in ComplianceHeaders :
       \E ws \in Strings(SheetRows(headers), MaxSheetRows) :
         /\ op' = "sheet_rows_compliance"
         /\ arg' = [ws |-> ws, headers |-> headers]
         /\ loc' = [idx |-> Idx(headers)]
         /\ ret' = sheet_rows_compliance(ws, headers)

SheetRowsDynamic ==
  /\ op = "init"
  /\ \E headers \in DynamicHeaders :
       \E ws \in Strings(SheetRows(headers), MaxSheetRows) :
         /\ op' = "sheet_rows_dynamic"
         /\ arg' = [ws |-> ws, headers |-> headers]
         /\ loc' = [idx |-> Idx(headers)]
         /\ ret' = sheet_rows_dynamic(ws, headers)

\* build_body_compliance: the rows are classified, grouped and sorted, the
\* sections are written and joined.
BuildBodyCompliance ==
  /\ op = "init"
  /\ \E rows \in Strings(ComplianceRecords, MaxRows), region_map \in BodyRegionMaps :
       \E countries \in {[i \in 1..Len(rows) |-> rows[i].country]} :
       \E regions \in {RegionsOf(countries, [i \in 1..Len(rows) |-> rows[i].region],
                                 region_map)} :
       \E grouped \in {Grouped(rows, countries, regions)} :
       \E parts \in {Sections([reg \in DOMAIN grouped |->
                                 [k \in 1..Len(grouped[reg]) |->
                                    ComplianceEntry(grouped[reg][k],
                                                    BodyIcons[1], BodyIcons[2])]])} :
         /\ op' = "build_body_compliance"
         /\ arg' = [rows |-> rows, region_map |-> region_map,
                    svg_yes |-> BodyIcons[1], svg_no |-> BodyIcons[2]]
         /\ loc' = [regions |-> regions, grouped |-> grouped, parts |-> parts]
         /\ ret' = Join(parts)

\* build_body_dynamic: as build_body_compliance.  A record whose 'country' is
\* None makes the call raise TypeError: in the sort when its region holds a
\* second record, else in the join of hay.
BuildBodyDynamic ==
  /\ op = "init"
  /\ \E sheet \in DynamicSheets, region_map \in BodyRegionMaps :
       \E rows \in Strings(sheet.records, MaxRows) :
       \E countries \in {[i \in 1..Len(rows) |-> rows[i][KeyCountry]]} :
       \E regions \in {RegionsOf(countries,
                                 [i \in 1..Len(rows) |-> DictGetOr(rows[i], KeyRegion, None)],
                                 region_map)} :
         /\ op' = "build_body_dynamic"
         /\ arg' = [rows |-> rows, display_cols |-> sheet.display_cols,
                    region_map |-> region_map,
                    svg_yes |-> BodyIcons[1], svg_no |-> BodyIcons[2]]
         /\ IF \E i \in 1..Len(rows) : countries[i] = None
            THEN /\ loc' = [regions |-> regions, grouped |-> <<>>, parts |-> <<>>]
                 /\ ret' = TypeError
            ELSE \E grouped \in {Grouped(rows, countries, regions)} :
                 \E parts \in {Sections([reg \in DOMAIN grouped |->
                                           [k \in 1..Len(grouped[reg]) |->
                                              DynamicEntry(grouped[reg][k], sheet.display_cols,
                                                           BodyIcons[1], BodyIcons[2])]])} :
                   /\ loc' = [regions |-> regions, grouped |-> grouped, parts |-> parts]
                   /\ ret' = Join(parts)

PageNext ==
  \/ SheetRowsCompliance
  \/ SheetRowsDynamic
  \/ BuildBodyCompliance
  \/ BuildBodyDynamic

SpecPage == Init /\ [][PageNext]_vars

(***************************************************************************)
(* src/wecompliance/generate.py: the package's render_status               *)
(*                                                                         *)
(* escape and the icon fragment are the same text as in src/generate.py.   *)
(***************************************************************************)

\* s.split("\n")
SplitLines(s) ==
  LET nl == {i \in 1..Len(s) : s[i] = 10}
      n == Cardinality(nl)
      pos(k) == CHOOSE i \in nl : Cardinality({j \in nl : j < i}) = k - 1
  IN  [k \in 1..(n + 1) |->
         SubSeq(s, IF k = 1 THEN 1 ELSE pos(k - 1) + 1,
                   IF k = n + 1 THEN Len(s) ELSE pos(k) - 1)]

\* pat = re.compile(r"([YN])(?=\s)") matches at position i of a line
MarkerAt(line, i) ==
  /\ line[i] \in {89, 78}
  /\ i < Len(line)
  /\ line[i + 1] \in Whitespace

\* render_status._replace_in_line: the text between two matches is escaped, a
\* match becomes the fragment of its icon.
replace_in_line(line, svg_yes, svg_no) ==
  Join([i \in 1..Len(line) |->
          IF MarkerAt(line, i)
          THEN IconFragment(IF line[i] = 89 THEN svg_yes ELSE svg_no)
          ELSE escape(<<line[i]>>)])

wecompliance_render_status(cell, svg_yes, svg_no) ==
  IF cell = None THEN Dash
  ELSE LET s == NormalizeNewlines(Str(cell))
           lines == SplitLines(s)
           html_block ==
             Strip(JoinSep([k \in 1..Len(lines) |-> replace_in_line(lines[k], svg_yes, svg_no)],
                           <<60, 98, 114, 62>>))
       IN  IF Strip(s) = <<>> THEN Dash
           ELSE IF html_block # <<>> THEN html_block
           ELSE Dash

\* Y N (markers), y and E (letters), space TAB LF CR (whitespace), '<' (text).
PackageAlphabet == {89, 78, 121, 69, 32, 9, 10, 13, 60}

\* 'Y approved\nN restricted', 'Y\nN ok', 'ok Y\r\nok N\rY ok'
PackageSamples ==
  {<<89, 32, 97, 112, 112, 114, 111, 118, 101, 100, 10, 78, 32, 114, 101, 115, 116, 114, 105, 99, 116, 101, 100>>, <<89, 10, 78, 32, 111, 107>>,
   <<111, 107, 32, 89, 13, 10, 111, 107, 32, 78, 13, 89, 32, 111, 107>>}

PackageCells == {None} \cup Strings(PackageAlphabet, MaxCellLen) \cup PackageSamples

PackageRenderStatus ==
  /\ op = "init"
  /\ \E cell \in PackageCells, icons \in IconPairs :
       /\ op' = "wecompliance_render_status"
       /\ arg' = [cell |-> cell, svg_yes |-> icons[1], svg_no |-> icons[2]]
       /\ loc' = LET s == IF cell = None THEN <<>> ELSE NormalizeNewlines(Str(cell))
                 IN  [s |-> s, lines |-> SplitLines(s)]
       /\ ret' = wecompliance_render_status(cell, icons[1], icons[2])

PackageNext == PackageRenderStatus

SpecPackage == Init /\ [][PackageNext]_vars

(***************************************************************************)
(* The page shell: html_shell, build_team_html, build_nav_html             *)
(***************************************************************************)

\* sub is in s at position i
OccursAt(s, i, sub) ==
  /\ i + Len(sub) - 1 <= Len(s)
  /\ \A j \in 1..Len(sub) : s[i + j - 1] = sub[j]

\* Of the positions in at, those str.replace takes for a text of n
\* characters: from the left, one that does not overlap the one before.
RECURSIVE TakenFrom(_, _, _)
TakenFrom(at, from, n) ==
  LET rest == {i \in at : i >= from}
  IN  IF rest = {} THEN <<>>
      ELSE LET i == CHOOSE x \in rest : \A y \in rest : x <= y
           IN  <<i>> \o TakenFrom(at, i + n, n)

\* s.replace(old, new) for a non-empty old: one pass over s, the text put in
\* is not looked at again.
Replace(s, old, new) ==
  LET n == Len(old)
      taken == TakenFrom({i \in 1..Len(s) : OccursAt(s, i, old)}, 1, n)
      k == Len(taken)
  IN  Join([j \in 1..(2 * k + 1) |->
              IF j % 2 = 0 THEN new
              ELSE LET p == (j + 1) \div 2
                   IN  SubSeq(s, IF p = 1 THEN 1 ELSE taken[p - 1] + n,
                                 IF p = k + 1 THEN Len(s) ELSE taken[p] - 1)])

\* html_shell.tpl without the text of its <style> and <script> elements,
\* which holds no '__'.
tpl ==
  <<60, 33, 68, 79, 67, 84, 89, 80, 69, 32, 104, 116, 109, 108, 62, 10, 60, 104, 116, 109, 108, 32,
    108, 97, 110, 103, 61, 34, 122, 104, 45, 67, 78, 34, 62, 10, 60, 104, 101, 97, 100, 62, 10, 32,
    32, 60, 109, 101, 116, 97, 32, 99, 104, 97, 114, 115, 101, 116, 61, 34, 85, 84, 70, 45, 56, 34,
    32, 47, 62, 10, 32, 32, 60, 109, 101, 116, 97, 32, 110, 97, 109, 101, 61, 34, 118, 105, 101,
    119, 112, 111, 114, 116, 34, 32, 99, 111, 110, 116, 101, 110, 116, 61, 34, 119, 105, 100, 116,
    104, 61, 100, 101, 118, 105, 99, 101, 45, 119, 105, 100, 116, 104, 44, 32, 105, 110, 105, 116,
    105, 97, 108, 45, 115, 99, 97, 108, 101, 61, 49, 34, 32, 47, 62, 10, 32, 32, 60, 116, 105, 116,
    108, 101, 62, 95, 95, 68, 79, 67, 95, 84, 73, 84, 76, 69, 95, 95, 60, 47, 116, 105, 116, 108,
    101, 62, 10, 32, 32, 60, 115, 116, 121, 108, 101, 62, 10, 32, 32, 60, 47, 115, 116, 121, 108,
    101, 62, 10, 60, 47, 104, 101, 97, 100, 62, 10, 60, 98, 111, 100, 121, 62, 10, 32, 32, 60, 104,
    101, 97, 100, 101, 114, 62, 10, 32, 32, 32, 32, 60, 104, 49, 62, 95, 95, 72, 49, 95, 95, 60,
    47, 104, 49, 62, 10, 32, 32, 32, 32, 60, 104, 50, 62, 95, 95, 83, 85, 66, 84, 73, 84, 76, 69,
    95, 95, 60, 47, 104, 50, 62, 10, 32, 32, 60, 47, 104, 101, 97, 100, 101, 114, 62, 10, 10, 32,
    32, 60, 100, 105, 118, 32, 99, 108, 97, 115, 115, 61, 34, 116, 111, 112, 98, 97, 114, 34, 62,
    10, 32, 32, 32, 32, 60, 100, 105, 118, 32, 99, 108, 97, 115, 115, 61, 34, 110, 97, 118, 34, 62,
    95, 95, 78, 65, 86, 95, 95, 60, 47, 100, 105, 118, 62, 10, 32, 32, 60, 47, 100, 105, 118, 62,
    10, 10, 32, 32, 95, 95, 67, 79, 78, 84, 82, 79, 76, 83, 95, 95, 10, 10, 32, 32, 60, 100, 105,
    118, 32, 99, 108, 97, 115, 115, 61, 34, 99, 111, 110, 116, 97, 105, 110, 101, 114, 34, 32, 105,
    100, 61, 34, 99, 111, 110, 116, 97, 105, 110, 101, 114, 34, 62, 10, 32, 32, 32, 32, 95, 95, 66,
    79, 68, 89, 95, 95, 10, 32, 32, 60, 47, 100, 105, 118, 62, 10, 10, 32, 32, 60, 102, 111, 111,
    116, 101, 114, 62, 10, 32, 32, 32, 32, 95, 95, 84, 69, 65, 77, 95, 95, 10, 32, 32, 32, 32, 60,
    100, 105, 118, 32, 99, 108, 97, 115, 115, 61, 34, 104, 105, 110, 116, 34, 62, 73, 102, 32, 121,
    111, 117, 32, 104, 97, 118, 101, 32, 97, 110, 121, 32, 113, 117, 101, 115, 116, 105, 111, 110,
    115, 44, 32, 112, 108, 101, 97, 115, 101, 32, 99, 111, 110, 116, 97, 99, 116, 32, 117, 115, 46,
    60, 47, 100, 105, 118, 62, 10, 32, 32, 60, 47, 102, 111, 111, 116, 101, 114, 62, 10, 10, 32,
    32, 60, 115, 99, 114, 105, 112, 116, 62, 10, 32, 32, 60, 47, 115, 99, 114, 105, 112, 116, 62,
    10, 60, 47, 98, 111, 100, 121, 62, 10, 60, 47, 104, 116, 109, 108, 62, 10>>

\* The seven placeholders of tpl, in the order html_shell replaces them.
Placeholders ==
  [doc_title |-> <<95, 95, 68, 79, 67, 95, 84, 73, 84, 76, 69, 95, 95>>,
   h1 |-> <<95, 95, 72, 49, 95, 95>>,
   subtitle |-> <<95, 95, 83, 85, 66, 84, 73, 84, 76, 69, 95, 95>>,
   nav |-> <<95, 95, 78, 65, 86, 95, 95>>,
   controls |-> <<95, 95, 67, 79, 78, 84, 82, 79, 76, 83, 95, 95>>,
   body |-> <<95, 95, 66, 79, 68, 89, 95, 95>>,
   team |-> <<95, 95, 84, 69, 65, 77, 95, 95>>]

\* html_shell.controls_html when show_controls: the <div class="controls"> with
\* the search field and the 'Expand all' and 'Collapse all' buttons
ControlsHtml ==
  <<60, 100, 105, 118, 32, 99, 108, 97, 115, 115, 61, 34, 99, 111, 110, 116, 114, 111, 108, 115,
    34, 62, 60, 105, 110, 112, 117, 116, 32, 105, 100, 61, 34, 115, 101, 97, 114, 99, 104, 34, 32,
    112, 108, 97, 99, 101, 104, 111, 108, 100, 101, 114, 61, 34, 83, 101, 97, 114, 99, 104, 32, 99,
    111, 117, 110, 116, 114, 121, 32, 111, 114, 32, 99, 111, 110, 116, 101, 110, 116, 8230, 34, 32,
    111, 110, 105, 110, 112, 117, 116, 61, 34, 102, 105, 108, 116, 101, 114, 76, 105, 115, 116, 40,
    41, 34, 32, 47, 62, 60, 98, 117, 116, 116, 111, 110, 32, 111, 110, 99, 108, 105, 99, 107, 61,
    34, 116, 111, 103, 103, 108, 101, 65, 108, 108, 40, 116, 114, 117, 101, 41, 34, 62, 69, 120,
    112, 97, 110, 100, 32, 97, 108, 108, 60, 47, 98, 117, 116, 116, 111, 110, 62, 60, 98, 117, 116,
    116, 111, 110, 32, 111, 110, 99, 108, 105, 99, 107, 61, 34, 116, 111, 103, 103, 108, 101, 65,
    108, 108, 40, 102, 97, 108, 115, 101, 41, 34, 62, 67, 111, 108, 108, 97, 112, 115, 101, 32, 97,
    108, 108, 60, 47, 98, 117, 116, 116, 111, 110, 62, 60, 47, 100, 105, 118, 62>>

\* tpl.replace("__DOC_TITLE__", escape(doc_title)).replace("__H1__", ...) and so
\* on: seven replacements, each over the result of the one before.
html_shell(doc_title, h1_title, subtitle, nav_html, body_html, team_html, show_controls) ==
  LET controls_html == IF show_controls THEN ControlsHtml ELSE <<>>
      t1 == Replace(tpl, Placeholders.doc_title, escape(doc_title))
      t2 == Replace(t1, Placeholders.h1, escape(h1_title))
      t3 == Replace(t2, Placeholders.subtitle, escape(subtitle))
      t4 == Replace(t3, Placeholders.nav, nav_html)
      t5 == Replace(t4, Placeholders.controls, controls_html)
      t6 == Replace(t5, Placeholders.body, body_html)
  IN  Replace(t6, Placeholders.team, team_html)

\* The members: name, email, role, photo, links (label and href).
TEAM ==
  <<[name |-> <<88, 105, 97, 111, 119, 101, 110, 32, 87, 97, 110, 103>>,
     email |-> <<120, 105, 97, 111, 119, 101, 110, 46, 119, 97, 110, 103, 64, 119, 101, 99, 97, 114, 101, 45,
                 98, 105, 111, 46, 99, 111, 109>>,
     role |-> <<67, 111, 110, 115, 117, 108, 116, 97, 110, 116, 44, 32, 69, 117, 114, 97, 115, 105, 97, 110,
                32, 80, 108, 97, 116, 101>>,
     photo |-> <<97, 115, 115, 101, 116, 115, 47, 112, 104, 111, 116, 111, 115, 47, 120, 105, 97, 111, 119, 101,
                 110, 46, 119, 97, 110, 103, 46, 115, 118, 103>>,
     links |-> <<>>],
    [name |-> <<89, 117, 107, 117, 110, 32, 83, 117, 110>>,
     email |-> <<107, 97, 121, 46, 115, 117, 110, 64, 119, 101, 99, 97, 114, 101, 45, 108, 105, 102, 101, 46,
                 99, 111, 109>>,
     role |-> <<77, 97, 110, 97, 103, 101, 114, 44, 32, 80, 97, 99, 105, 102, 105, 99, 32, 80, 108, 97, 116, 101>>,
     photo |-> <<97, 115, 115, 101, 116, 115, 47, 112, 104, 111, 116, 111, 115, 47, 107, 97, 121, 46, 115, 117,
                 110, 46, 115, 118, 103>>,
     links |-> <<[label |-> <<76, 105, 110, 107, 101, 100, 73, 110>>,
                  href |-> <<104, 116, 116, 112, 58, 47, 47, 119, 119, 119, 46, 108, 105, 110, 107, 101, 100, 105, 110, 46,
                             99, 111, 109, 47, 105, 110, 47, 121, 117, 45, 107, 117, 110, 45, 115, 117, 110>>]>>],
    [name |-> <<89, 105, 120, 117, 97, 110, 32, 70, 97, 110>>,
     email |-> <<121, 105, 120, 117, 97, 110, 46, 102, 97, 110, 64, 119, 101, 99, 97, 114, 101, 45, 98, 105,
                 111, 46, 99, 111, 109>>,
     role |-> <<67, 111, 110, 115, 117, 108, 116, 97, 110, 116, 44, 32, 65, 109, 101, 114, 105, 99, 97, 110,
                32, 80, 108, 97, 116, 101>>,
     photo |-> <<97, 115, 115, 101, 116, 115, 47, 112, 104, 111, 116, 111, 115, 47, 121, 105, 120, 117, 97, 110,
                 46, 102, 97, 110, 46, 115, 118, 103>>,
     links |-> <<>>]>>

\* main.placeholder_svg: a data:image/svg+xml URL
placeholder_svg ==
  <<100, 97, 116, 97, 58, 105, 109, 97, 103, 101, 47, 115, 118, 103, 43, 120, 109, 108, 59, 117,
    116, 102, 56, 44, 60, 115, 118, 103, 32, 120, 109, 108, 110, 115, 61, 39, 104, 116, 116, 112,
    58, 47, 47, 119, 119, 119, 46, 119, 51, 46, 111, 114, 103, 47, 50, 48, 48, 48, 47, 115, 118,
    103, 39, 32, 119, 105, 100, 116, 104, 61, 39, 49, 50, 48, 39, 32, 104, 101, 105, 103, 104, 116,
    61, 39, 49, 50, 48, 39, 62, 60, 114, 101, 99, 116, 32, 119, 105, 100, 116, 104, 61, 39, 49, 48,
    48, 37, 50, 53, 39, 32, 104, 101, 105, 103, 104, 116, 61, 39, 49, 48, 48, 37, 50, 53, 39, 32,
    114, 120, 61, 39, 49, 56, 39, 32, 114, 121, 61, 39, 49, 56, 39, 32, 102, 105, 108, 108, 61, 39,
    37, 50, 51, 102, 52, 102, 49, 101, 99, 39, 47, 62, 60, 99, 105, 114, 99, 108, 101, 32, 99, 120,
    61, 39, 54, 48, 39, 32, 99, 121, 61, 39, 52, 56, 39, 32, 114, 61, 39, 49, 56, 39, 32, 102, 105,
    108, 108, 61, 39, 37, 50, 51, 100, 100, 100, 54, 99, 99, 39, 47, 62, 60, 114, 101, 99, 116, 32,
    120, 61, 39, 50, 54, 39, 32, 121, 61, 39, 55, 52, 39, 32, 119, 105, 100, 116, 104, 61, 39, 54,
    56, 39, 32, 104, 101, 105, 103, 104, 116, 61, 39, 51, 48, 39, 32, 114, 120, 61, 39, 49, 53, 39,
    32, 102, 105, 108, 108, 61, 39, 37, 50, 51, 100, 100, 100, 54, 99, 99, 39, 47, 62, 60, 47, 115,
    118, 103, 62>>

\* build_team_html: member(m) is the block of one member of TEAM,
\*   <div class="member"><div class="avatar">{img}</div><div class="mmeta">
\*   <div class="name">{name}</div><div class="roleline">{role}<br>{line2}</div>
\*   </div></div>
\* with img = <img src="{photo}" alt="{name}"
\*   onerror="this.onerror=null;this.src='{placeholder_svg}';" />
\* and line2 the mailto link and the links of the member, joined by
\*   ' <span class="sep">·</span> '.
build_team_html(placeholder) ==
  LET member(m) ==
        LET email_txt == escape(m.email)
            line2_parts ==
              <<Join(<<<<60, 97, 32, 104, 114, 101, 102, 61, 34, 109, 97, 105, 108, 116, 111, 58>>, email_txt, <<34, 62>>, email_txt, <<60, 47, 97, 62>>>>)>>
              \o [k \in 1..Len(m.links) |->
                    Join(<<<<60, 97, 32, 104, 114, 101, 102, 61, 34>>, HtmlEscape(m.links[k].href, TRUE),
                           <<34, 32, 116, 97, 114, 103, 101, 116, 61, 34, 95, 98, 108, 97, 110, 107, 34, 32, 114, 101, 108,
                             61, 34, 110, 111, 111, 112, 101, 110, 101, 114, 34, 62>>,
                           escape(m.links[k].label), <<60, 47, 97, 62>>>>)]
            line2 == JoinSep(line2_parts, <<32, 60, 115, 112, 97, 110, 32, 99, 108, 97, 115, 115, 61, 34, 115, 101, 112, 34, 62, 183, 60,
                                            47, 115, 112, 97, 110, 62, 32>>)
            img == Join(<<<<60, 105, 109, 103, 32, 115, 114, 99, 61, 34>>, HtmlEscape(m.photo, TRUE), <<34, 32, 97, 108, 116, 61, 34>>, escape(m.name),
                          <<34, 32, 111, 110, 101, 114, 114, 111, 114, 61, 34, 116, 104, 105, 115, 46, 111, 110, 101, 114,
                            114, 111, 114, 61, 110, 117, 108, 108, 59, 116, 104, 105, 115, 46, 115, 114, 99, 61, 39>>, placeholder, <<39, 59, 34, 32, 47, 62>>>>)
        IN  Join(<<<<60, 100, 105, 118, 32, 99, 108, 97, 115, 115, 61, 34, 109, 101, 109, 98, 101, 114, 34, 62, 60,
                     100, 105, 118, 32, 99, 108, 97, 115, 115, 61, 34, 97, 118, 97, 116, 97, 114, 34, 62>>, img,
                   <<60, 47, 100, 105, 118, 62, 60, 100, 105, 118, 32, 99, 108, 97, 115, 115, 61, 34, 109, 109, 101,
                     116, 97, 34, 62, 60, 100, 105, 118, 32, 99, 108, 97, 115, 115, 61, 34, 110, 97, 109, 101, 34, 62>>, escape(m.name),
                   <<60, 47, 100, 105, 118, 62, 60, 100, 105, 118, 32, 99, 108, 97, 115, 115, 61, 34, 114, 111, 108,
                     101, 108, 105, 110, 101, 34, 62>>, escape(m.role), <<60, 98, 114, 62>>, line2,
                   <<60, 47, 100, 105, 118, 62, 60, 47, 100, 105, 118, 62, 60, 47, 100, 105, 118, 62>>>>)
  IN  Join(<<<<60, 100, 105, 118, 32, 99, 108, 97, 115, 115, 61, 34, 116, 101, 97, 109, 34, 62>>, <<60, 104, 51, 62, 84, 101, 97, 109, 60, 47, 104, 51, 62>>, <<60, 100, 105, 118, 32, 99, 108, 97, 115, 115, 61, 34, 109, 101, 109, 98, 101, 114, 115, 34, 62>>>>
           \o [k \in 1..Len(TEAM) |-> member(TEAM[k])]
           \o <<<<60, 47, 100, 105, 118, 62, 60, 47, 100, 105, 118, 62>>>>)

\* build_nav_html: the Home link alone, whatever the pages:
\*   <a class="{cls}" href="index.html">Home</a>, cls 'active' on index.html
build_nav_html(pages, active_href) ==
  Join(<<<<60, 97, 32, 99, 108, 97, 115, 115, 61, 34>>,
         IF active_href = <<105, 110, 100, 101, 120, 46, 104, 116, 109, 108>> THEN <<97, 99, 116, 105, 118, 101>> ELSE <<>>,
         <<34, 32, 104, 114, 101, 102, 61, 34, 105, 110, 100, 101, 120, 46, 104, 116, 109, 108, 34, 62,
           72, 111, 109, 101, 60, 47, 97, 62>>>>)
\* Sheet names: 'A', 'R&D', and names that read as a placeholder of tpl.
ShellTitles ==
  {<<65>>, <<82, 38, 68>>, <<95, 95, 72, 49, 95, 95>>, <<95, 95, 66, 79, 68, 89, 95, 95>>, <<95, 95, 84, 69, 65, 77, 95, 95>>}

\* The subtitles main gives to the sheet pages and to the landing page.
ShellSubtitles ==
  {<<87, 101, 67, 111, 109, 112, 108, 105, 97, 110, 99, 101, 32, 183, 32, 87, 101, 99, 76, 97, 99,
     33740, 26666, 20840, 29699, 21512, 35268, 24615>>, <<80, 114, 111, 98, 105, 111, 116, 105, 99, 115, 32, 67, 111, 109, 112, 108, 105, 97, 110, 99,
                                       101, 32, 65, 100, 118, 105, 99, 101, 32, 65, 114, 111, 117, 110, 100, 32, 116, 104, 101, 32,
                                       87, 111, 114, 108, 100>>}

\* Page bodies: none; a cell that says '__TEAM__' and one that says
\* 'see __BODY__', as render_status writes them; and markup.
ShellBodies ==
  {<<>>,
   render_status(<<95, 95, 84, 69, 65, 77, 95, 95>>, BodyIcons[1], BodyIcons[2]),
   render_status(<<115, 101, 101, 32, 95, 95, 66, 79, 68, 89, 95, 95>>, BodyIcons[1], BodyIcons[2]),
   <<60, 100, 105, 118, 32, 99, 108, 97, 115, 115, 61, 34, 99, 101, 108, 108, 34, 62, 89, 60, 47,
     100, 105, 118, 62>>}

\* html_shell as main calls it: the document title is 'WeCompliance' or
\* 'WeCompliance - ' and a sheet name.
HtmlShell ==
  /\ op = "init"
  /\ \E doc \in {<<>>} \cup ShellTitles, h1_title \in ShellTitles,
        subtitle \in ShellSubtitles, body_html \in ShellBodies,
        active \in {<<105, 110, 100, 101, 120, 46, 104, 116, 109, 108>>, <<65, 46, 104, 116, 109, 108>>}, show_controls \in BOOLEAN :
       \E doc_title \in {IF doc = <<>> THEN <<87, 101, 67, 111, 109, 112, 108, 105, 97, 110, 99, 101>>
                         ELSE <<87, 101, 67, 111, 109, 112, 108, 105, 97, 110, 99, 101, 32, 45, 32>> \o doc},
          nav_html \in {build_nav_html(<<>>, active)},
          team_html \in {build_team_html(placeholder_svg)} :
         /\ op' = "html_shell"
         /\ arg' = [doc_title |-> doc_title, h1_title |-> h1_title, subtitle |-> subtitle,
                    nav_html |-> nav_html, body_html |-> body_html, team_html |-> team_html,
                    show_controls |-> show_controls]
         /\ loc' = [controls_html |-> IF show_controls THEN ControlsHtml ELSE <<>>]
         /\ ret' = html_shell(doc_title, h1_title, subtitle, nav_html, body_html,
                              team_html, show_controls)

(***************************************************************************)
(* A run: main                                                             *)
(***************************************************************************)

\* The columns a compliance sheet must have.
COMPLIANCE_REQUIRED ==
  <<DEFAULT_COLUMNS.country,
    DEFAULT_COLUMNS.food, DEFAULT_COLUMNS.f_link,
    DEFAULT_COLUMNS.supp, DEFAULT_COLUMNS.s_link,
    DEFAULT_COLUMNS.drug, DEFAULT_COLUMNS.d_link,
    DEFAULT_COLUMNS.feed, DEFAULT_COLUMNS.fe_link>>

\* 'compliance' when the header row has all of COMPLIANCE_REQUIRED, else
\* 'compare' when it has Country, else 'unknown'.
detect_sheet_kind(headers) ==
  LET headers_set == {headers[i] : i \in 1..Len(headers)} \ {None}
  IN  IF \A k \in 1..Len(COMPLIANCE_REQUIRED) : COMPLIANCE_REQUIRED[k] \in headers_set
      THEN "compliance"
      ELSE IF DEFAULT_COLUMNS.country \in headers_set THEN "compare"
      ELSE "unknown"

\* build_body_compliance as a value: the text BuildBodyCompliance leaves in ret.
build_body_compliance(rows, region_map, svg_yes, svg_no) ==
  LET countries == [i \in 1..Len(rows) |-> rows[i].country]
      regions == RegionsOf(countries, [i \in 1..Len(rows) |-> rows[i].region], region_map)
      grouped == Grouped(rows, countries, regions)
  IN  Join(Sections([reg \in DOMAIN grouped |->
                       [k \in 1..Len(grouped[reg]) |->
                          ComplianceEntry(grouped[reg][k], svg_yes, svg_no)]]))

\* build_body_dynamic as a value: the text BuildBodyDynamic leaves in ret, or
\* TypeError.
build_body_dynamic(rows, display_cols, region_map, svg_yes, svg_no) ==
  LET countries == [i \in 1..Len(rows) |-> rows[i][KeyCountry]]
      regions == RegionsOf(countries,
                           [i \in 1..Len(rows) |-> DictGetOr(rows[i], KeyRegion, None)],
                           region_map)
      grouped == Grouped(rows, countries, regions)
  IN  IF \E i \in 1..Len(rows) : countries[i] = None THEN TypeError
      ELSE Join(Sections([reg \in DOMAIN grouped |->
                            [k \in 1..Len(grouped[reg]) |->
                               DynamicEntry(grouped[reg][k], display_cols,
                                            svg_yes, svg_no)]]))

\* slugify: re.sub(r"[^a-z0-9]+", "_", s) makes one '_' of each longest run of
\* other characters, re.sub(r"_+", "_", s) one '_' of each run of '_'.
slugify(name) ==
  LET keep(c) == (97 <= c /\ c <= 122) \/ (48 <= c /\ c <= 57)
      runs(s) == Join([i \in 1..Len(s) |->
                         IF keep(s[i]) THEN <<s[i]>>
                         ELSE IF i = 1 \/ keep(s[i - 1]) THEN <<95>>
                         ELSE <<>>])
      underscores(s) == Join([i \in 1..Len(s) |->
                                IF s[i] # 95 \/ i = 1 \/ s[i - 1] # 95 THEN <<s[i]>>
                                ELSE <<>>])
      s1 == runs(Lower(Strip(Or(name, <<>>))))
  IN  Or(RStripChars(LStripChars(underscores(s1), {95}), {95}), <<115, 104, 101, 101, 116>>)

\* The taglines of the sheets BC99, Akk11, BLa80, LRa05, as pairs.
HOME_TAGLINES ==
  <<<<<<66, 67, 57, 57>>,
      <<60, 105, 62, 66, 97, 99, 105, 108, 108, 117, 115, 32, 99, 111, 97, 103, 117, 108, 97, 110, 115,
        60, 47, 105, 62, 32, 47, 32, 60, 105, 62, 87, 101, 105, 122, 109, 97, 110, 110, 105, 97, 32,
        99, 111, 97, 103, 117, 108, 97, 110, 115, 60, 47, 105, 62, 32, 47, 32, 60, 105, 62, 72, 101,
        121, 110, 100, 114, 105, 99, 107, 120, 105, 97, 32, 99, 111, 97, 103, 117, 108, 97, 110, 115,
        60, 47, 105, 62>>>>,
    <<<<65, 107, 107, 49, 49>>,
      <<60, 105, 62, 65, 107, 107, 101, 114, 109, 97, 110, 115, 105, 97, 32, 109, 117, 99, 105, 110,
        105, 112, 104, 105, 108, 97, 60, 47, 105, 62>>>>,
    <<<<66, 76, 97, 56, 48>>,
      <<60, 105, 62, 66, 105, 102, 105, 100, 111, 98, 97, 99, 116, 101, 114, 105, 117, 109, 32, 97,
        110, 105, 109, 97, 108, 105, 115, 60, 47, 105, 62, 32, 115, 117, 98, 115, 112, 46, 32, 60, 105,
        62, 108, 97, 99, 116, 105, 115, 60, 47, 105, 62>>>>,
    <<<<76, 82, 97, 48, 53>>,
      <<60, 105, 62, 76, 97, 99, 116, 105, 99, 97, 115, 101, 105, 98, 97, 99, 105, 108, 108, 117, 115,
        32, 114, 104, 97, 109, 110, 111, 115, 117, 115, 60, 47, 105, 62>>>>>>

\* main.make_card:
\*   <a class="sheetcard" href="{href}"><img class="img"
\*   src="assets/sheets/{slug}.svg" alt="" onerror="...default.svg';">
\*   <div class="meta"><div class="t">{label}</div><div class="d">{tagline}</div>
\*   </div></a>, the tagline 'Open page' for a label HOME_TAGLINES has not
make_card(label, href) ==
  LET icon_path == Join(<<<<97, 115, 115, 101, 116, 115, 47, 115, 104, 101, 101, 116, 115, 47>>, slugify(label), <<46, 115, 118, 103>>>>)
      tagline == DictGet(HOME_TAGLINES, label, <<79, 112, 101, 110, 32, 112, 97, 103, 101>>)
  IN  Join(<<<<60, 97, 32, 99, 108, 97, 115, 115, 61, 34, 115, 104, 101, 101, 116, 99, 97, 114, 100, 34, 32,
               104, 114, 101, 102, 61, 34>>, HtmlEscape(href, TRUE), <<34, 62>>,
             <<60, 105, 109, 103, 32, 99, 108, 97, 115, 115, 61, 34, 105, 109, 103, 34, 32, 115, 114, 99, 61,
               34>>, HtmlEscape(icon_path, TRUE),
             <<34, 32, 97, 108, 116, 61, 34, 34, 32, 111, 110, 101, 114, 114, 111, 114, 61, 34, 116, 104, 105,
               115, 46, 111, 110, 101, 114, 114, 111, 114, 61, 110, 117, 108, 108, 59, 116, 104, 105, 115, 46,
               115, 114, 99, 61, 39, 97, 115, 115, 101, 116, 115, 47, 115, 104, 101, 101, 116, 115, 47, 100,
               101, 102, 97, 117, 108, 116, 46, 115, 118, 103, 39, 59, 34, 62>>,
             <<60, 100, 105, 118, 32, 99, 108, 97, 115, 115, 61, 34, 109, 101, 116, 97, 34, 62>>,
             <<60, 100, 105, 118, 32, 99, 108, 97, 115, 115, 61, 34, 116, 34, 62>>, escape(label), <<60, 47, 100, 105, 118, 62>>,
             <<60, 100, 105, 118, 32, 99, 108, 97, 115, 115, 61, 34, 100, 34, 62>>, tagline, <<60, 47, 100, 105, 118, 62>>,
             <<60, 47, 100, 105, 118, 62, 60, 47, 97, 62>>>>)

\* f"{sn}.html" and f"compare-{sn}.html"
CompliancePageName(sn) == sn \o <<46, 104, 116, 109, 108>>

ComparePageName(sn) == <<99, 111, 109, 112, 97, 114, 101, 45>> \o sn \o <<46, 104, 116, 109, 108>>

IndexName == <<105, 110, 100, 101, 120, 46, 104, 116, 109, 108>>

\* The titles of the sheets of a workbook whose header row is of a kind, in
\* the order of the workbook.
SheetsOfKind(wb, kind) ==
  LET sel == SelectSeq(wb, LAMBDA ws : detect_sheet_kind(ws.headers) = kind)
  IN  [k \in 1..Len(sel) |-> sel[k].title]

\* wb[sn]
SheetNamed(wb, sn) == wb[CHOOSE k \in 1..Len(wb) : wb[k].title = sn]

\* main.pages: Home, the compliance pages, the comparison pages.  A
\* comparison page's label gets ' (Compare)' when a label before it is the
\* same.
Pages(compliance_sheets, compare_sheets) ==
  LET label(k) ==
        LET sn == compare_sheets[k]
        IN  IF sn = <<72, 111, 109, 101>>
               \/ (\E j \in 1..Len(compliance_sheets) : compliance_sheets[j] = sn)
               \/ (\E j \in 1..(k - 1) : compare_sheets[j] = sn)
            THEN sn \o <<32, 40, 67, 111, 109, 112, 97, 114, 101, 41>> ELSE sn
  IN  <<<<<<72, 111, 109, 101>>, IndexName>>>>
      \o [k \in 1..Len(compliance_sheets) |->
            <<compliance_sheets[k], CompliancePageName(compliance_sheets[k])>>]
      \o [k \in 1..Len(compare_sheets) |->
            <<label(k), ComparePageName(compare_sheets[k])>>]

\* The page of a compliance sheet, as main writes it.
CompliancePage(ws, pages, region_map, svg_yes, svg_no) ==
  html_shell(<<87, 101, 67, 111, 109, 112, 108, 105, 97, 110, 99, 101, 32, 45, 32>> \o ws.title, ws.title,
             <<87, 101, 67, 111, 109, 112, 108, 105, 97, 110, 99, 101, 32, 183, 32, 87, 101, 99, 76, 97, 99,
               33740, 26666, 20840, 29699, 21512, 35268, 24615>>,
             build_nav_html(pages, CompliancePageName(ws.title)),
             build_body_compliance(sheet_rows_compliance(ws.rows, ws.headers),
                                   region_map, svg_yes, svg_no),
             build_team_html(placeholder_svg), TRUE)

\* The page of a comparison sheet, or TypeError when build_body_dynamic
\* raises it.
ComparePage(ws, pages, region_map, svg_yes, svg_no) ==
  LET sheet == sheet_rows_dynamic(ws.rows, ws.headers)
  IN  IF DEFAULT_COLUMNS.country \notin {ws.headers[i] : i \in 1..Len(ws.headers)}
      THEN SystemExit
      ELSE LET body == build_body_dynamic(sheet.rows, sheet.display_cols,
                                          region_map, svg_yes, svg_no)
           IN  IF body = TypeError THEN TypeError
               ELSE html_shell(<<87, 101, 67, 111, 109, 112, 108, 105, 97, 110, 99, 101, 32, 45, 32>> \o ws.title, ws.title,
                               <<87, 101, 67, 111, 109, 112, 108, 105, 97, 110, 99, 101, 32, 183, 32, 22269, 38469, 33740,
                                 26666, 23545, 27604>>,
                               build_nav_html(pages, ComparePageName(ws.title)),
                               body, build_team_html(placeholder_svg), TRUE)

\* The landing page.
IndexPage(compliance_sheets, compare_sheets, pages) ==
  LET sec1 == <<<<60, 100, 105, 118, 32, 99, 108, 97, 115, 115, 61, 34, 115, 101, 99, 116, 105, 111, 110, 45,
                  116, 105, 116, 108, 101, 34, 62, 87, 101, 99, 76, 97, 99, 33740, 26666, 20840, 29699, 21512,
                  35268, 24615, 60, 47, 100, 105, 118, 62>>,
                <<60, 100, 105, 118, 32, 99, 108, 97, 115, 115, 61, 34, 115, 104, 101, 101, 116, 99, 97, 114,
                  100, 115, 34, 62>>>>
              \o [k \in 1..Len(compliance_sheets) |->
                    make_card(compliance_sheets[k],
                              CompliancePageName(compliance_sheets[k]))]
              \o <<<<60, 47, 100, 105, 118, 62>>>>
      sec2 == <<<<60, 100, 105, 118, 32, 99, 108, 97, 115, 115, 61, 34, 115, 101, 99, 116, 105, 111, 110, 45,
                  116, 105, 116, 108, 101, 34, 62, 22269, 38469, 33740, 26666, 23545, 27604, 60, 47, 100, 105,
                  118, 62>>,
                <<60, 100, 105, 118, 32, 99, 108, 97, 115, 115, 61, 34, 115, 104, 101, 101, 116, 99, 97, 114,
                  100, 115, 34, 62>>>>
              \o [k \in 1..Len(compare_sheets) |->
                    make_card(compare_sheets[k], ComparePageName(compare_sheets[k]))]
              \o <<<<60, 47, 100, 105, 118, 62>>>>
  IN  html_shell(<<87, 101, 67, 111, 109, 112, 108, 105, 97, 110, 99, 101>>, <<87, 101, 67, 111, 109, 112, 108, 105, 97, 110, 99, 101>>,
                 <<80, 114, 111, 98, 105, 111, 116, 105, 99, 115, 32, 67, 111, 109, 112, 108, 105, 97, 110, 99,
                   101, 32, 65, 100, 118, 105, 99, 101, 32, 65, 114, 111, 117, 110, 100, 32, 116, 104, 101, 32,
                   87, 111, 114, 108, 100>>,
                 build_nav_html(pages, IndexName), Join(sec1 \o sec2),
                 build_team_html(placeholder_svg), FALSE)

\* How many sheets the compliance workbook has at most.
MaxSheets == 2

\* Sheet names: 'A', 'compare-A', 'index'.
SheetNames == {<<65>>, <<99, 111, 109, 112, 97, 114, 101, 45, 65>>, <<105, 110, 100, 101, 120>>}

\* Header rows of the sheets of the compliance workbook: the nine required
\* columns; the same without f_link; a column that is not Country.
HeadersA ==
  {COMPLIANCE_REQUIRED,
   SelectSeq(COMPLIANCE_REQUIRED, LAMBDA h : h # DEFAULT_COLUMNS.f_link),
   <<NoteColumn>>}

\* Header rows of the sheets of the comparison workbook: Country, Region and
\* a display column; a display column named 'country'; no Country column;
\* the nine columns of a compliance sheet.
HeadersB ==
  {<<DEFAULT_COLUMNS.country, DEFAULT_COLUMNS.region, NoteColumn>>,
   <<DEFAULT_COLUMNS.country, KeyCountry, NoteColumn>>,
   <<NoteColumn>>,
   COMPLIANCE_REQUIRED}

\* The one row under a header row: 'Japan' under Country, nothing under
\* Region and 'country', 'Y' elsewhere.
SiteRow(headers) ==
  [i \in 1..Len(headers) |->
     IF headers[i] = DEFAULT_COLUMNS.country THEN <<74, 97, 112, 97, 110>>
     ELSE IF headers[i] \in {DEFAULT_COLUMNS.region, KeyCountry} THEN None
     ELSE <<89>>]

\* The workbooks of one to n sheets.  A worksheet is its title, its first
\* row, and the rows below it; no two sheets of a workbook have one title.
Workbooks(names, headers, n) ==
  LET sheets == {[title |-> t, headers |-> h, rows |-> <<SiteRow(h)>>] :
                   t \in names, h \in headers}
  IN  {wb \in Strings(sheets, n) :
         /\ wb # <<>>
         /\ \A i, j \in 1..Len(wb) : wb[i].title = wb[j].title => i = j}

\* main, from the two workbooks to the files the run writes.  loc.written
\* holds the write_text calls in order, each with the name of the file under
\* out_dir and the text; a later write to a name replaces the file.  ret is
\* None when the run ends after the landing page, and TypeError when
\* build_body_dynamic raises it: the run ends there, with the files written
\* so far.  The comparison workbook has one sheet named 'A'.
Main ==
  /\ op = "init"
  /\ \E wb_a \in Workbooks(SheetNames, HeadersA, MaxSheets),
        wb_b \in Workbooks({<<65>>}, HeadersB, 1),
        region_map \in {[k \in {} |-> <<>>]} :
       \E compliance_sheets \in {SheetsOfKind(wb_a, "compliance")},
          compare_sheets \in {SheetsOfKind(wb_b, "compare")} :
       \E pages \in {Pages(compliance_sheets, compare_sheets)} :
       \E first \in {[k \in 1..Len(compliance_sheets) |->
                        [name |-> CompliancePageName(compliance_sheets[k]),
                         text |-> CompliancePage(SheetNamed(wb_a, compliance_sheets[k]),
                                                 pages, region_map,
                                                 BodyIcons[1], BodyIcons[2])]]},
          second \in {[k \in 1..Len(compare_sheets) |->
                         [name |-> ComparePageName(compare_sheets[k]),
                          text |-> ComparePage(SheetNamed(wb_b, compare_sheets[k]),
                                               pages, region_map,
                                               BodyIcons[1], BodyIcons[2])]]} :
       \E raised \in {{k \in 1..Len(second) : second[k].text = TypeError}} :
         /\ op' = "main"
         /\ arg' = [wb_a |-> wb_a, wb_b |-> wb_b, region_map |-> region_map]
         /\ IF raised = {}
            THEN /\ loc' = [compliance_sheets |-> compliance_sheets,
                            compare_sheets |-> compare_sheets, pages |-> pages,
                            written |-> first \o second
                                        \o <<[name |-> IndexName,
                                              text |-> IndexPage(compliance_sheets,
                                                                 compare_sheets, pages)]>>]
                 /\ ret' = None
            ELSE /\ loc' = [compliance_sheets |-> compliance_sheets,
                            compare_sheets |-> compare_sheets, pages |-> pages,
                            written |-> first
                                        \o SubSeq(second, 1,
                                                  (CHOOSE k \in raised :
                                                     \A j \in raised : k <= j) - 1)]
                 /\ ret' = TypeError

SiteNext == HtmlShell \/ Main

SpecSite == Init /\ [][SiteNext]_vars

(***************************************************************************)
(* The whole program                                                       *)
(***************************************************************************)

Next == RegionNext \/ RenderNext \/ PageNext \/ PackageNext \/ SiteNext

Spec == Init /\ [][Next]_vars

(***************************************************************************)
(* Properties of the renderers (SpecRender)                                *)
(***************************************************************************)

\* An absent cell, or one made of whitespace only (CR and LF included).
IsBlank(x) == x = None \/ \A i \in 1..Len(x) : x[i] \in Whitespace

\* C9: render_status and render_link return exactly '-' for an absent, empty
\* or whitespace-only cell (for render_status also one of line endings only).
C9_BlankIsDash ==
  /\ (op = "render_status" /\ IsBlank(arg.cell)) => ret = Dash
  /\ (op = "render_link" /\ IsBlank(arg.url)) => ret = Dash

\* A status cell that is one CR LF.
C9_Witness ==
  /\ op = "render_status"
  /\ arg.cell = <<13, 10>>
  /\ ret = Dash

AsciiAlnum == (48..57) \cup (65..90) \cup (97..122)

\* How many times sub occurs in s.
CountOccurrences(s, sub) ==
  Cardinality({i \in 1..(Len(s) - Len(sub) + 1) :
                 SubSeq(s, i, i + Len(sub) - 1) = sub})

\* How every icon fragment starts: <span class="status">
FragmentOpen == <<60, 115, 112, 97, 110, 32, 99, 108, 97, 115, 115, 61, 34, 115, 116, 97, 116, 117, 115, 34, 62>>

\* A Y/N character of s at position i that has an ASCII letter or digit before it.
Glued(s, i) == s[i] \in TokenChars /\ i > 1 /\ s[i - 1] \in AsciiAlnum

Br == <<60, 98, 114, 62>>

\* The fragment of an icon as the output holds it: the line feeds of the
\* icon's markup are converted with the rest of the output.
EmittedFragment(icon) == ReplaceChar(IconFragment(icon), 10, Br)

\* s[i] is followed by a whitespace character or is the last character.
Terminated(s, i) == i = Len(s) \/ s[i + 1] \in Whitespace

\* The positions of s that hold a character of family, have none of block
\* right before them and are terminated: the tokens the statement describes.
TokensOf(s, family, block) ==
  {i \in 1..Len(s) :
     /\ s[i] \in family
     /\ (i = 1 \/ s[i - 1] \notin block)
     /\ Terminated(s, i)}

\* What the statement says of a call of render_status, for the characters
\* family that count as Y/N (yes being the Y family) and the characters block
\* that glue a token on its left: a character of family with none of block
\* before it is a match if and only if it is terminated, there is one fragment
\* per such token, with the yes icon for the Y family and the no icon for the
\* N family.
TokenRule(family, yes, block) ==
  (op = "render_status" /\ ~IsBlank(arg.cell)) =>
    LET s == loc.s
        tokens == TokensOf(s, family, block)
    IN  /\ \A i \in 1..Len(s) :
             (s[i] \in family /\ (i = 1 \/ s[i - 1] \notin block))
               => (i \in loc.matches <=> Terminated(s, i))
        /\ CountOccurrences(ret, FragmentOpen) = Cardinality(tokens)
        /\ CountOccurrences(ret, EmittedFragment(arg.svg_yes))
             = Cardinality({i \in tokens : s[i] \in yes})
        /\ CountOccurrences(ret, EmittedFragment(arg.svg_no))
             = Cardinality({i \in tokens : s[i] \notin yes})

\* C11 as stated: the characters are Y y N n Ｙ Ｎ and only an ASCII letter or
\* digit glues a token on its left.  The Kelvin sign before a Y ('KY' with
\* U+212A) keeps the Y from being replaced, and a lower-case full-width ｙ is
\* replaced although it is none of the six characters.
C11_AsStated ==
  TokenRule({89, 121, 78, 110, 65337, 65326}, {89, 121, 65337}, AsciiAlnum)

\* C11: in render_status a character from Y y N n Ｙ Ｎ ｙ ｎ that is not right
\* after an ASCII letter or digit, nor after U+0130, U+0131, U+017F or U+212A
\* (the characters whose case folding is an ASCII letter), is replaced by one
\* icon fragment if and only if a whitespace character follows it or it is the
\* last character; the fragment holds the yes icon for the Y family and the no
\* icon for the N family, and the output holds as many fragments as there are
\* such tokens.
C11_TokenReplaced ==
  TokenRule({89, 121, 78, 110, 65337, 65326, 65369, 65358}, {89, 121, 65337, 65369},
            AsciiAlnum \cup {304, 305, 383, 8490})

\* 'Y,n': the Y before the comma stays, the final n becomes the no icon.
C11_Witness ==
  /\ op = "render_status"
  /\ arg.cell = <<89, 44, 110>>
  /\ loc.matches = {3}
  /\ ret = <<89, 44>> \o IconFragment(arg.svg_no)

\* The text of a cell as the statement wants it in the output, character by
\* character: a CR LF pair, a lone CR and a LF are one '<br>' each, & < > are
\* their entities, every other character is itself.
PlainText(raw) ==
  Join([i \in 1..Len(raw) |->
          IF raw[i] = 13 /\ i < Len(raw) /\ raw[i + 1] = 10 THEN <<>>
          ELSE IF raw[i] \in {10, 13} THEN Br
          ELSE IF raw[i] = 38 THEN <<38, 97, 109, 112, 59>>
          ELSE IF raw[i] = 60 THEN <<38, 108, 116, 59>>
          ELSE IF raw[i] = 62 THEN <<38, 103, 116, 59>>
          ELSE <<raw[i]>>])

\* C12: for a non-blank cell without a matching token, render_status returns
\* exactly the escaped text of the cell (& < > as entities) with every line
\* ending (CR LF, CR, LF) as one '<br>': no character is added, dropped or
\* moved, leading and trailing spaces included.
C12_PlainTextKept ==
  (op = "render_status" /\ ~IsBlank(arg.cell) /\ loc.matches = {})
    => ret = PlainText(arg.cell)

\* ' &' and a CR: the leading space stays, & is an entity, the CR a '<br>'.
C12_Witness ==
  /\ op = "render_status"
  /\ arg.cell = <<32, 38, 13>>
  /\ ret = <<32, 38, 97, 109, 112, 59, 60, 98, 114, 62>>

\* The line endings of a cell: every LF, and every CR that no LF follows
\* (a CR LF pair is one line ending).
LineBreaks(raw) ==
  Cardinality({i \in 1..Len(raw) :
                 \/ raw[i] = 10
                 \/ raw[i] = 13 /\ ~(i < Len(raw) /\ raw[i + 1] = 10)})

\* The line feeds inside the markup of the icons the matches of s select.
RECURSIVE IconBreaks(_, _, _, _)
IconBreaks(s, matches, svg_yes, svg_no) ==
  IF matches = {} THEN 0
  ELSE LET i == CHOOSE x \in matches : TRUE
           icon == IF s[i] \in {89, 121, 65337, 65369} THEN svg_yes ELSE svg_no
       IN  CountOccurrences(icon, <<10>>)
             + IconBreaks(s, matches \ {i}, svg_yes, svg_no)

\* What the statement says of one call of render_status on a multi-line cell:
\* the output holds one '<br>' per line ending of the cell (next to those of
\* the icons' own markup) and no CR or LF, a Y/N character that ends a line
\* and is not glued on its left is a match, and the output is, in the order
\* of the cell, a fragment for each match and the escaped text of the rest.
LineRule ==
  LET s == loc.s
  IN  /\ CountOccurrences(ret, Br)
           = LineBreaks(arg.cell) + IconBreaks(s, loc.matches, arg.svg_yes, arg.svg_no)
      /\ \A k \in 1..Len(ret) : ret[k] \notin {10, 13}
      /\ \A i \in 1..Len(s) :
           (/\ s[i] \in {89, 121, 78, 110, 65337, 65326, 65369, 65358}
            /\ (i = 1 \/ s[i - 1] \notin AsciiAlnum \cup {304, 305, 383, 8490})
            /\ i < Len(s) /\ s[i + 1] = 10)
             => i \in loc.matches
      /\ ret = Join([i \in 1..Len(s) |->
                       IF i \in loc.matches
                       THEN EmittedFragment(IF s[i] \in {89, 121, 65337, 65369}
                                            THEN arg.svg_yes ELSE arg.svg_no)
                       ELSE PlainText(<<s[i]>>)])

\* C13 as stated, for every cell with a line ending: a cell of line endings
\* and spaces only, such as one LF, is rendered as '-' with no '<br>'.
C13_AsStated ==
  (op = "render_status" /\ arg.cell # None /\ LineBreaks(arg.cell) > 0)
    => LineRule

\* C13: a non-blank multi-line cell is handled in one call of render_status:
\* each CR, LF or CR LF of the cell yields exactly one '<br>', no CR or LF is
\* left in the output, tokens are replaced on every line (a token that ends a
\* line included) and the other text keeps its order; 'Y approved' LF
\* 'N restricted' is the yes icon, ' approved', '<br>', the no icon,
\* ' restricted'.
C13_MultiLine ==
  /\ (op = "render_status" /\ ~IsBlank(arg.cell) /\ LineBreaks(arg.cell) > 0)
       => LineRule
  /\ (/\ op = "render_status"
      /\ arg.cell = <<89, 32, 97, 112, 112, 114, 111, 118, 101, 100, 10,
                      78, 32, 114, 101, 115, 116, 114, 105, 99, 116, 101, 100>>)
       => ret = EmittedFragment(arg.svg_yes)
                  \o <<32, 97, 112, 112, 114, 111, 118, 101, 100>> \o Br
                  \o EmittedFragment(arg.svg_no)
                  \o <<32, 114, 101, 115, 116, 114, 105, 99, 116, 101, 100>>

\* 'Y' CR LF 'N' CR 'Y': three lines, each of them a token.
C13_Witness ==
  /\ op = "render_status"
  /\ arg.cell = <<89, 13, 10, 78, 13, 89>>
  /\ loc.matches = {1, 3, 5}
  /\ ret = EmittedFragment(arg.svg_yes) \o Br \o EmittedFragment(arg.svg_no)
             \o Br \o EmittedFragment(arg.svg_yes)

\* The fixed text of the anchor render_link returns:
\* <a href="   " target="_blank" rel="noopener">   </a>
AnchorOpen == <<60, 97, 32, 104, 114, 101, 102, 61, 34>>

AnchorAttrs ==
  <<34, 32, 116, 97, 114, 103, 101, 116, 61, 34, 95, 98, 108, 97, 110, 107, 34,
    32, 114, 101, 108, 61, 34, 110, 111, 111, 112, 101, 110, 101, 114, 34, 62>>

AnchorClose == <<60, 47, 97, 62>>

\* The stripped link cell has a pipe and the text after its first pipe is
\* not blank.
HasLabel(u) == Find(u, 124) # 0 /\ ~IsBlank(SubSeq(u, Find(u, 124) + 1, Len(u)))

\* C14: when the link cell has a pipe and the text after the first pipe is
\* not blank, the href of the anchor is the trimmed, attribute-escaped text
\* before the first pipe and the label (after the icon) is exactly the escaped
\* text after the first pipe, trimmed like the href, never a derived host;
\* further pipes belong to the label.
C14_ExplicitLabel ==
  (op = "render_link" /\ HasLabel(loc.u)) =>
    LET bar == Find(loc.u, 124)
        before == Strip(SubSeq(loc.u, 1, bar - 1))
        after == Strip(SubSeq(loc.u, bar + 1, Len(loc.u)))
    IN  ret = AnchorOpen \o HtmlEscape(before, TRUE) \o AnchorAttrs
                \o arg.svg_external \o <<32>> \o HtmlEscape(after, FALSE)
                \o AnchorClose

\* 'https://x.org/p|a|b': the href is the URL, the label is 'a|b'.
C14_Witness ==
  /\ op = "render_link"
  /\ arg.url = <<104, 116, 116, 112, 115, 58, 47, 47, 120, 46, 111, 114, 103, 47, 112, 124, 97, 124, 98>>
  /\ ret = AnchorOpen \o <<104, 116, 116, 112, 115, 58, 47, 47, 120, 46, 111, 114, 103, 47, 112>>
             \o AnchorAttrs \o arg.svg_external \o <<32, 97, 124, 98>> \o AnchorClose

\* The length of a leading 'scheme://' or '//' of raw, 0 when raw has none.
SchemePrefixLen(raw) ==
  LET i == Find2(raw, <<47, 47>>)
  IN  IF i = 1 THEN 2
      ELSE IF
         /\ i > 2
         /\ raw[i - 1] = 58
         /\ raw[1] \in AsciiAlpha
         /\ \A j \in 1..(i - 2) : raw[j] \in AsciiAlnum \cup {43, 45, 46}
      THEN i + 1
      ELSE 0

\* A URL read as [scheme://]host[/path]: the host position is the text after
\* the scheme prefix up to the first '/', the path is what follows.
HostPosition(raw) ==
  LET rest == SubSeq(raw, SchemePrefixLen(raw) + 1, Len(raw))
      j == Find(rest, 47)
  IN  IF j = 0 THEN rest ELSE SubSeq(rest, 1, j - 1)

\* The URL up to where its path begins: the scheme prefix and the host position.
BeforePath(raw) == SubSeq(raw, 1, SchemePrefixLen(raw) + Len(HostPosition(raw)))

\* The host position is a host name: letters, digits, dots and hyphens.
IsHostName(h) == h # <<>> /\ \A i \in 1..Len(h) : h[i] \in AsciiAlnum \cup {45, 46}

\* C15: when the link cell gives no label, the label is the host of the URL:
\* for 'scheme://host/path' and 'host/path' it is exactly the host, and for
\* every input it has no '/' and holds no part of the path, that is, it is
\* empty or found in the URL before its path begins.  Violated: for '/x//y/z'
\* the label is the path segment 'y'.
C15_DerivedLabelIsHost ==
  (op = "render_link" /\ ret # Dash /\ ~HasLabel(loc.u)) =>
    LET host == HostPosition(loc.raw_url)
    IN  /\ ret = AnchorOpen \o HtmlEscape(loc.raw_url, TRUE) \o AnchorAttrs
                   \o Strip(arg.svg_external \o <<32>> \o HtmlEscape(loc.label_txt, FALSE))
                   \o AnchorClose
        /\ \A k \in 1..Len(loc.label_txt) : loc.label_txt[k] # 47
        /\ IsHostName(host) => loc.label_txt = host
        /\ loc.label_txt = <<>> \/ Contains(loc.label_txt, BeforePath(loc.raw_url))

\* The text of a URL as an attribute value, character by character: & < > and
\* both quotes are their entities.
AttrText(raw) ==
  Join([i \in 1..Len(raw) |->
          IF raw[i] = 38 THEN <<38, 97, 109, 112, 59>>
          ELSE IF raw[i] = 60 THEN <<38, 108, 116, 59>>
          ELSE IF raw[i] = 62 THEN <<38, 103, 116, 59>>
          ELSE IF raw[i] = 34 THEN <<38, 113, 117, 111, 116, 59>>
          ELSE IF raw[i] = 39 THEN <<38, 35, 120, 50, 55, 59>>
          ELSE <<raw[i]>>])

\* The entities html.escape writes: &amp; &lt; &gt; &quot; &#x27;
Entities ==
  {<<38, 97, 109, 112, 59>>, <<38, 108, 116, 59>>, <<38, 103, 116, 59>>,
   <<38, 113, 117, 111, 116, 59>>, <<38, 35, 120, 50, 55, 59>>}

\* The value of the href attribute of an anchor a: what stands between
\* '<a href="' and the next double quote.
HrefValue(a) ==
  LET rest == SubSeq(a, Len(AnchorOpen) + 1, Len(a))
  IN  SubSeq(rest, 1, Find(rest, 34) - 1)

\* C16: for every non-blank link cell the href of the anchor is attribute
\* escaped: the value is closed by the anchor's own quote, which target="_blank"
\* and rel="noopener" follow, it holds no double quote, single quote, '<' or
\* '>', every '&' in it starts an entity, and it is the URL of the cell with
\* these five characters as entities.
C16_HrefEscaped ==
  (op = "render_link" /\ ~IsBlank(arg.url)) =>
    LET href == HrefValue(ret)
        n == Len(AnchorOpen) + Len(href)
    IN  /\ SubSeq(ret, 1, Len(AnchorOpen)) = AnchorOpen
        /\ SubSeq(ret, n + 1, n + Len(AnchorAttrs)) = AnchorAttrs
        /\ \A k \in 1..Len(href) :
             /\ href[k] \notin {34, 39, 60, 62}
             /\ href[k] = 38 =>
                  \E e \in Entities : SubSeq(href, k, k + Len(e) - 1) = e
        /\ href = AttrText(loc.raw_url)

\* The cell '"&p': the href is &quot;&amp;p.
C16_Witness ==
  /\ op = "render_link"
  /\ arg.url = <<34, 38, 112>>
  /\ HrefValue(ret) = <<38, 113, 117, 111, 116, 59, 38, 97, 109, 112, 59, 112>>

(***************************************************************************)
(* Properties of the sheets and the page bodies (SpecPage)                 *)
(***************************************************************************)

\* A call of build_body_compliance or build_body_dynamic that has returned.
BodyBuilt ==
  op \in {"build_body_compliance", "build_body_dynamic"} /\ ret # TypeError

\* r["country"] of a record of either kind of sheet
CountryOf(r) == IF op = "build_body_compliance" THEN r.country ELSE r[KeyCountry]

\* How the opening of a region's section starts, and how an entry starts.
GroupPrefix == <<60, 100, 101, 116, 97, 105, 108, 115, 32, 99, 108, 97, 115, 115, 61, 34, 103, 114, 111, 117, 112, 34, 62, 60, 115, 117, 109, 109, 97, 114, 121, 62, 60, 115, 112, 97, 110, 62>>

EntryPrefix == <<60, 100, 101, 116, 97, 105, 108, 115, 32, 99, 108, 97, 115, 115, 61, 34, 99, 111, 117, 110, 116, 114, 121, 34, 32, 100, 97, 116, 97, 45, 104, 97, 121, 61, 34>>

StartsWith(s, prefix) ==
  Len(s) >= Len(prefix) /\ SubSeq(s, 1, Len(prefix)) = prefix

\* The region a section opening names: the text of its first span.
HeadingOf(part) ==
  LET rest == SubSeq(part, Len(GroupPrefix) + 1, Len(part))
  IN  SubSeq(rest, 1, Find(rest, 60) - 1)

\* The regions of the sections of a body, in the order of the sections.
SectionRegions(parts) ==
  LET opens == SelectSeq(parts, LAMBDA p : StartsWith(p, GroupPrefix))
  IN  [k \in 1..Len(opens) |-> HeadingOf(opens[k])]

\* The place of a region in the display order Asia, Americas, Europe, Oceania,
\* Other; 0 for any other text.
DisplayRank(reg) ==
  IF reg = Asia THEN 1
  ELSE IF reg = Americas THEN 2
  ELSE IF reg = Europe THEN 3
  ELSE IF reg = Oceania THEN 4
  ELSE IF reg = Other THEN 5
  ELSE 0

\* C17: build_body_compliance and build_body_dynamic emit the sections in the
\* order Asia, Americas, Europe, Oceania, Other whatever the order of the
\* rows: the body is its parts joined, every section names one of the five
\* regions, and of two sections the earlier one names the region that is
\* earlier in that order, so no region has two sections.
C17_SectionOrder ==
  BodyBuilt =>
    LET regs == SectionRegions(loc.parts)
    IN  /\ ret = Join(loc.parts)
        /\ \A k \in 1..Len(regs) : DisplayRank(regs[k]) # 0
        /\ \A a, b \in 1..Len(regs) :
             a < b => DisplayRank(regs[a]) < DisplayRank(regs[b])

\* Zedland before Austria in the rows: the sections are Europe, then Other.
C17_Witness ==
  /\ op = "build_body_compliance"
  /\ Len(arg.rows) = 2
  /\ arg.rows[1].country = <<90, 101, 100, 108, 97, 110, 100>>
  /\ arg.rows[2].country = <<65, 117, 115, 116, 114, 105, 97>>
  /\ arg.region_map = <<>>
  /\ SectionRegions(loc.parts) = <<Europe, Other>>

\* C18: a region no record is assigned to has no markup in the body: the
\* sections are those of the regions that have records, the parts are one
\* opening and one closing per such region and one entry per row, no badge
\* counts 0 countries, and without rows the body is the empty string.
C18_NoEmptySection ==
  BodyBuilt =>
    LET regs == SectionRegions(loc.parts)
        used == {loc.regions[i] : i \in 1..Len(arg.rows)}
    IN  /\ {regs[k] : k \in 1..Len(regs)} = used
        /\ Len(regs) = Cardinality(used)
        /\ Len(loc.parts) = Len(arg.rows) + 2 * Cardinality(used)
        /\ \A k \in 1..Len(loc.parts) :
             ~Contains(<<62, 48, 32, 99, 111, 117, 110, 116, 114, 105, 101, 115, 60>>, loc.parts[k])
        /\ arg.rows = <<>> => ret = <<>>

\* One record, of Zedland, which the table places in Europe: the body is the
\* Europe section alone.
C18_Witness ==
  /\ op = "build_body_dynamic"
  /\ Len(arg.rows) = 1
  /\ arg.rows[1][KeyCountry] = <<90, 101, 100, 108, 97, 110, 100>>
  /\ arg.region_map # <<>>
  /\ SectionRegions(loc.parts) = <<Europe>>
  /\ Len(loc.parts) = 3

\* a <= b for two str by code points: a is a prefix of b, or a has the
\* smaller character where the two first differ.
CodePointLeq(a, b) ==
  \/ Len(a) <= Len(b) /\ \A i \in 1..Len(a) : a[i] = b[i]
  \/ \E k \in 1..Len(a) :
       /\ k <= Len(b)
       /\ a[k] < b[k]
       /\ \A i \in 1..(k - 1) : a[i] = b[i]

\* The entry of a record as the call at hand writes it.
EntryOf(r) ==
  IF op = "build_body_compliance"
  THEN ComplianceEntry(r, arg.svg_yes, arg.svg_no)
  ELSE DynamicEntry(r, arg.display_cols, arg.svg_yes, arg.svg_no)

\* C19: within a region the records are emitted in non-decreasing code-point
\* order of their country, and records of one country keep the order they
\* have in the rows: the records of each region are sorted so, and the entries
\* of the body are, region after region, those of these records in this order.
C19_SortedStable ==
  BodyBuilt =>
    /\ \A g \in 1..Len(REGION_ORDER) :
         LET items == loc.grouped[REGION_ORDER[g]]
             mine == SelectSeq([i \in 1..Len(arg.rows) |-> i],
                               LAMBDA i : loc.regions[i] = REGION_ORDER[g])
         IN  /\ \A a, b \in 1..Len(items) :
                  a < b => CodePointLeq(CountryOf(items[a]), CountryOf(items[b]))
             /\ \A c \in {CountryOf(items[k]) : k \in 1..Len(items)} :
                  SelectSeq(items, LAMBDA r : CountryOf(r) = c)
                    = LET same == SelectSeq(mine, LAMBDA i : CountryOf(arg.rows[i]) = c)
                      IN  [k \in 1..Len(same) |-> arg.rows[same[k]]]
    /\ SelectSeq(loc.parts, LAMBDA p : StartsWith(p, EntryPrefix))
         = Join([g \in 1..Len(REGION_ORDER) |->
                   [k \in 1..Len(loc.grouped[REGION_ORDER[g]]) |->
                      EntryOf(loc.grouped[REGION_ORDER[g]][k])]])

\* Austria (N), albania, Austria (Y) in the rows: Europe holds Austria (N),
\* Austria (Y), albania.
C19_Witness ==
  /\ op = "build_body_compliance"
  /\ Len(arg.rows) = 3
  /\ arg.rows[1].food = <<78>>
  /\ arg.rows[2].country = <<97, 108, 98, 97, 110, 105, 97>>
  /\ arg.rows[3].food = <<89>>
  /\ arg.rows[3].country = <<65, 117, 115, 116, 114, 105, 97>>
  /\ Len(loc.grouped[Europe]) = 3
  /\ [k \in 1..3 |-> loc.grouped[Europe][k].country]
       = <<<<65, 117, 115, 116, 114, 105, 97>>, <<65, 117, 115, 116, 114, 105, 97>>, <<97, 108, 98, 97, 110, 105, 97>>>>
  /\ [k \in 1..3 |-> loc.grouped[Europe][k].food] = <<<<78>>, <<89>>, None>>

\* The records a call of sheet_rows_compliance or sheet_rows_dynamic returned,
\* and the country of each.
ReturnedRecords ==
  IF op = "sheet_rows_compliance" THEN ret ELSE ret.rows

ReturnedCountries ==
  [k \in 1..Len(ReturnedRecords) |->
     IF op = "sheet_rows_compliance" THEN ReturnedRecords[k].country
     ELSE ReturnedRecords[k][KeyCountry]]

\* C20: a row whose Country cell is absent, empty or whitespace only never
\* becomes a record, whatever its other cells hold, and every returned record
\* has a trimmed, non-empty country.  Violated by sheet_rows_dynamic on a sheet
\* with a display column named 'country': its cell replaces the record's
\* country.
C20_CountryKept ==
  (/\ op \in {"sheet_rows_compliance", "sheet_rows_dynamic"}
   /\ DEFAULT_COLUMNS.country \in DOMAIN loc.idx) =>
    LET col == loc.idx[DEFAULT_COLUMNS.country]
        named == {i \in 1..Len(arg.ws) : ~IsBlank(arg.ws[i][col])}
    IN  /\ Len(ReturnedRecords) <= Cardinality(named)
        /\ \A k \in 1..Len(ReturnedRecords) :
             LET c == ReturnedCountries[k]
             IN  c # None /\ c # <<>> /\ Strip(c) = c

(***************************************************************************)
(* Further properties of the renderers (SpecRender)                        *)
(***************************************************************************)

\* The text of raw after its first '//' (all of raw when it has none), up to
\* the next '/'.
AfterDoubleSlash(raw) ==
  LET starts == {i \in 1..(Len(raw) - 1) : raw[i] = 47 /\ raw[i + 1] = 47}
      first == IF starts = {} THEN 0
               ELSE CHOOSE i \in starts : \A j \in starts : i <= j
      rest == IF first = 0 THEN raw ELSE SubSeq(raw, first + 2, Len(raw))
      cut == {i \in 1..Len(rest) : rest[i] = 47}
  IN  IF cut = {} THEN rest
      ELSE SubSeq(rest, 1, (CHOOSE i \in cut : \A j \in cut : i <= j) - 1)

\* urlparse raises on the URL of the cell, or finds no host in it and raises
\* on the URL with 'https://' in front.
ParsingFails(raw) ==
  \/ UrlParseFails(raw)
  \/ /\ UrlNetloc(raw) = <<>>
     /\ UrlParseFails(<<104, 116, 116, 112, 115, 58, 47, 47>> \o raw)

IsAnchor(a) ==
  /\ Len(a) >= Len(AnchorOpen) + Len(AnchorAttrs) + Len(AnchorClose)
  /\ SubSeq(a, 1, Len(AnchorOpen)) = AnchorOpen
  /\ SubSeq(a, Len(a) - Len(AnchorClose) + 1, Len(a)) = AnchorClose

\* C23: render_link returns for every cell, '-' or an anchor, and when the
\* cell gives no label and urlparse fails on its URL (as it is, or with
\* 'https://' in front) the anchor is still returned, its href the escaped URL
\* and its label the escaped text after the first '//' of the URL up to the
\* next '/'.
C23_UnparseableUrl ==
  op = "render_link" =>
    /\ ret = Dash \/ IsAnchor(ret)
    /\ (loc.u # <<>> /\ ~HasLabel(loc.u) /\ ParsingFails(loc.raw_url)) =>
         /\ loc.label_txt = AfterDoubleSlash(loc.raw_url)
         /\ ret = AnchorOpen \o HtmlEscape(loc.raw_url, TRUE) \o AnchorAttrs
                    \o Strip(arg.svg_external \o <<32>>
                               \o HtmlEscape(AfterDoubleSlash(loc.raw_url), FALSE))
                    \o AnchorClose

\* 'http://x]/p': urlparse raises on the bracket, the label is 'x]'.
C23_Witness ==
  /\ op = "render_link"
  /\ arg.url = <<104, 116, 116, 112, 58, 47, 47, 120, 93, 47, 112>>
  /\ ParsingFails(loc.raw_url)
  /\ loc.label_txt = <<120, 93>>
  /\ IsAnchor(ret)

\* C30: for every non-blank link cell render_link returns '-' or an anchor
\* whose href is not empty.  Violated by a cell whose text before the first
\* pipe is empty ('| My Title', '|'): the href is the empty string.
C30_HrefNotEmpty ==
  (op = "render_link" /\ ~IsBlank(arg.url)) =>
    \/ ret = Dash
    \/ IsAnchor(ret) /\ HrefValue(ret) # <<>>

\* C27: render_status writes the icon markup it is given unmodified into every
\* fragment, so for a non-blank cell the output holds the fragment of each
\* token as built from the icon, and as many '<br>' as the normalized cell has
\* line breaks, also when the icon markup spans several lines.  Violated for
\* an icon of two lines: its line break becomes '<br>' too.
C27_IconUnmodified ==
  (op = "render_status" /\ Strip(loc.s) # <<>>) =>
    /\ \A i \in loc.matches :
         Contains(IconFragment(IF UpperChar(loc.s[i]) \in {89, 65337}
                               THEN arg.svg_yes ELSE arg.svg_no), ret)
    /\ CountOccurrences(ret, Br)
         = Cardinality({i \in 1..Len(loc.s) : loc.s[i] = 10})

(***************************************************************************)
(* Properties of the country labels (SpecRegion)                           *)
(***************************************************************************)

\* C29: normalize_country_name is idempotent: normalizing a normalized label
\* gives the same label, and a normalized label neither starts with a bullet,
\* dash or arrow nor has whitespace at either end.  Violated by '- -x': the
\* result '-x' still starts with a dash and normalizes to 'x'.
C29_NormalizeIdempotent ==
  op = "normalize_country_name" =>
    /\ normalize_country_name(ret) = ret
    /\ ret # <<>> =>
         /\ ret[1] \notin Bullets \cup Whitespace
         /\ ret[Len(ret)] \notin Whitespace

(***************************************************************************)
(* Further properties of the page bodies (SpecPage)                        *)
(***************************************************************************)

\* How the tags of the generated markup, icons included, start.
MarkupTags ==
  {<<60, 100, 101, 116, 97, 105, 108, 115, 32>>, <<60, 47, 100, 101, 116, 97, 105, 108, 115, 62>>, <<60, 115, 117, 109, 109, 97, 114, 121, 62>>, <<60, 47, 115, 117, 109, 109, 97, 114, 121, 62>>, <<60, 115, 112, 97, 110, 62>>,
   <<60, 115, 112, 97, 110, 32>>, <<60, 47, 115, 112, 97, 110, 62>>, <<60, 100, 105, 118, 62>>, <<60, 100, 105, 118, 32>>, <<60, 47, 100, 105, 118, 62>>, <<60, 97, 32>>, <<60, 47, 97, 62>>,
   <<60, 115, 118, 103, 62>>, <<60, 115, 118, 103, 32>>, <<60, 47, 115, 118, 103, 62>>, <<60, 112, 97, 116, 104, 32>>, <<60, 98, 114, 62>>}

\* The text t stands in s at position k.
At(s, k, t) ==
  /\ k + Len(t) - 1 <= Len(s)
  /\ \A i \in 1..Len(t) : s[k + i - 1] = t[i]

\* The attribute value that starts at position k of s is closed by the quote
\* that the text after follows.
ClosedBy(s, k, after) ==
  \E q \in k..Len(s) :
    /\ s[q] = 34
    /\ \A j \in k..(q - 1) : s[j] # 34
    /\ At(s, q, after)

\* C22: every text of the source data reaches the body escaped.  The records
\* hold '<', '>', '&' and '"' in the country, the status cell, the link and
\* the column title, with '<' only before 'b>' and 'i>': in the body every
\* '<' starts a tag of the generated markup, there are as many '>' as '<',
\* every '&' starts an entity, and the data-hay and href values run to the
\* quote the markup closes them with.
C22_DataEscaped ==
  BodyBuilt =>
    LET lt == {k \in 1..Len(ret) : ret[k] = 60}
        gt == {k \in 1..Len(ret) : ret[k] = 62}
        amp == {k \in 1..Len(ret) : ret[k] = 38}
    IN  /\ \A k \in lt :
             /\ \E t \in MarkupTags : At(ret, k, t)
             /\ At(ret, k, EntryPrefix) =>
                  ClosedBy(ret, k + Len(EntryPrefix), <<34, 62, 60, 115, 117, 109, 109, 97, 114, 121, 62, 60, 115, 112, 97, 110, 62>>)
             /\ At(ret, k, AnchorOpen) =>
                  ClosedBy(ret, k + Len(AnchorOpen), AnchorAttrs)
        /\ \A k \in amp : \E e \in Entities : At(ret, k, e)
        /\ Cardinality(lt) = Cardinality(gt)

\* The record of '中国<b>&"C' alone: its texts are in the body as entities.
C22_Witness ==
  /\ op = "build_body_compliance"
  /\ Len(arg.rows) = 1
  /\ arg.rows[1].country = <<20013, 22269, 60, 98, 62, 38, 34, 67>>
  /\ arg.rows[1].f_link = <<34, 120, 60, 98, 62, 38, 124, 60, 105, 62, 34, 38>>
  /\ Contains(<<60, 115, 117, 109, 109, 97, 114, 121, 62, 60, 115, 112, 97, 110, 62, 20013, 22269, 38, 108, 116, 59, 98, 38, 103, 116, 59, 38, 97, 109, 112, 59, 34, 67, 60, 47, 115, 112, 97, 110, 62>>, ret)
  /\ Contains(<<100, 97, 116, 97, 45, 104, 97, 121, 61, 34, 20013, 22269, 38, 108, 116, 59, 98, 38, 103, 116, 59, 38, 97, 109, 112, 59, 38, 113, 117, 111, 116, 59, 67, 32, 124, 32, 38, 108, 116, 59, 98, 38, 103, 116, 59, 89, 32, 38, 113, 117, 111, 116, 59, 38, 97, 109, 112, 59, 32, 124, 32>>, ret)
  /\ Contains(<<60, 97, 32, 104, 114, 101, 102, 61, 34, 38, 113, 117, 111, 116, 59, 120, 38, 108, 116, 59, 98, 38, 103, 116, 59, 38, 97, 109, 112, 59, 34, 32, 116, 97, 114, 103, 101, 116, 61>>, ret)
  /\ Contains(<<32, 38, 108, 116, 59, 105, 38, 103, 116, 59, 34, 38, 97, 109, 112, 59, 60, 47, 97, 62>>, ret)

\* The number a section opening shows in its badge: the digits between
\* 'class="badge">' and ' countries'.
RECURSIVE Decimal(_)
Decimal(digits) ==
  IF digits = <<>> THEN 0
  ELSE 10 * Decimal(SubSeq(digits, 1, Len(digits) - 1)) + digits[Len(digits)] - 48

BadgeOf(part) ==
  LET mark == <<60, 115, 112, 97, 110, 32, 99, 108, 97, 115, 115, 61, 34, 98, 97, 100, 103, 101, 34, 62>>
      from == Len(GroupPrefix) + Len(HeadingOf(part)) + Len(<<60, 47, 115, 112, 97, 110, 62>>) + Len(mark)
      rest == SubSeq(part, from + 1, Len(part))
  IN  Decimal(SubSeq(rest, 1, Find(rest, 32) - 1))

\* The country an entry shows: the text of the span of its summary, which
\* follows the data-hay attribute.
SummaryOf(part) ==
  LET rest == SubSeq(part, Len(EntryPrefix) + 1, Len(part))
      after == SubSeq(rest, Find(rest, 34) + Len(<<34, 62, 60, 115, 117, 109, 109, 97, 114, 121, 62, 60, 115, 112, 97, 110, 62>>), Len(rest))
  IN  SubSeq(after, 1, Find(after, 60) - 1)

RECURSIVE SumOf(_)
SumOf(numbers) ==
  IF numbers = <<>> THEN 0 ELSE Head(numbers) + SumOf(Tail(numbers))

\* C28: grouping conserves the records.  The body has one entry per row; each
\* entry stands in a section, and for every region and country the section of
\* the region holds as many entries of the country as there are rows of that
\* country which classify_region places in the region; the badge of a section
\* counts the entries between its opening and its closing, and the badges add
\* up to the number of rows.
C28_RecordsConserved ==
  BodyBuilt =>
    LET parts == loc.parts
        rows == arg.rows
        opens == {k \in 1..Len(parts) : StartsWith(parts[k], GroupPrefix)}
        entries == {k \in 1..Len(parts) : StartsWith(parts[k], EntryPrefix)}
        sec(k) == CHOOSE o \in opens : o < k /\ \A o2 \in opens : o2 < k => o2 <= o
        placed == {<<i, classify_region(CountryOf(rows[i]),
                                        IF op = "build_body_compliance" THEN rows[i].region
                                        ELSE DictGetOr(rows[i], KeyRegion, None),
                                        arg.region_map),
                     HtmlEscape(CountryOf(rows[i]), FALSE)>> : i \in 1..Len(rows)}
        shown == {<<k, HeadingOf(parts[sec(k)]), SummaryOf(parts[k])>> : k \in entries}
        badges == {<<o, BadgeOf(parts[o])>> : o \in opens}
        opening == SelectSeq(parts, LAMBDA p : StartsWith(p, GroupPrefix))
    IN  /\ Cardinality(entries) = Len(rows)
        /\ \A k \in entries : \E o \in opens : o < k
        /\ \A x \in placed :
             Cardinality({y \in shown : y[2] = x[2] /\ y[3] = x[3]})
               = Cardinality({z \in placed : z[2] = x[2] /\ z[3] = x[3]})
        /\ \A b \in badges :
             /\ b[2] = Cardinality({k \in entries : sec(k) = b[1]})
             /\ \E c \in (b[1] + 1)..Len(parts) :
                  /\ parts[c] = GroupClose
                  /\ \A k \in (b[1] + 1)..(c - 1) : k \in entries
                  /\ b[2] = c - b[1] - 1
        /\ SumOf([k \in 1..Len(opening) |-> BadgeOf(opening[k])]) = Len(rows)

\* Zedland, Austria and Austria again, with the table that places Zedland in
\* Europe: one section with the badge 3.
C28_Witness ==
  /\ op = "build_body_compliance"
  /\ Len(arg.rows) = 3
  /\ arg.rows[1].country = <<90, 101, 100, 108, 97, 110, 100>>
  /\ arg.rows[2].country = <<65, 117, 115, 116, 114, 105, 97>>
  /\ arg.rows[3] = arg.rows[2]
  /\ arg.region_map # <<>>
  /\ Len(loc.parts) = 5
  /\ HeadingOf(loc.parts[1]) = Europe
  /\ BadgeOf(loc.parts[1]) = 3
  /\ [k \in 2..4 |-> SummaryOf(loc.parts[k])]
       = [k \in 2..4 |-> IF k = 4 THEN <<90, 101, 100, 108, 97, 110, 100>> ELSE <<65, 117, 115, 116, 114, 105, 97>>]

(***************************************************************************)
(* Properties of the package's render_status (SpecPackage)                 *)
(***************************************************************************)

\* The 'Y' and 'N' of the normalized cell that whitespace follows.
MarkersBeforeWhitespace(s) ==
  {i \in 1..(Len(s) - 1) : s[i] \in {89, 78} /\ s[i + 1] \in Whitespace}

\* C24: the package's render_status replaces every 'Y' or 'N' that is
\* immediately followed by a whitespace character, on every line of a
\* multi-line cell and also when the whitespace is the line break that ends
\* the marker's line: the output of a non-blank cell holds an icon fragment
\* for each of them.  Violated by 'Y\nN ok': the 'Y' that ends the first line
\* stays text.
C24_MarkerReplaced ==
  (op = "wecompliance_render_status" /\ Strip(loc.s) # <<>>) =>
    CountOccurrences(ret, FragmentOpen)
      >= Cardinality(MarkersBeforeWhitespace(loc.s))

(***************************************************************************)
(* Properties of the page shell and of a run (SpecSite)                    *)
(***************************************************************************)

\* The placeholders in the order of the replacements, and the text
\* html_shell puts in for each.
PlaceholderOrder ==
  <<Placeholders.doc_title, Placeholders.h1, Placeholders.subtitle, Placeholders.nav,
    Placeholders.controls, Placeholders.body, Placeholders.team>>

SlotTexts ==
  <<escape(arg.doc_title), escape(arg.h1_title), escape(arg.subtitle), arg.nav_html,
    loc.controls_html, arg.body_html, arg.team_html>>

\* Where tpl holds each placeholder, and the pieces of tpl around them.
PlaceholderAt ==
  [k \in 1..Len(PlaceholderOrder) |->
     CHOOSE i \in 1..Len(tpl) : OccursAt(tpl, i, PlaceholderOrder[k])]

TemplatePieces ==
  LET n == Len(PlaceholderOrder)
  IN  [p \in 1..(n + 1) |->
         SubSeq(tpl,
                IF p = 1 THEN 1 ELSE PlaceholderAt[p - 1] + Len(PlaceholderOrder[p - 1]),
                IF p = n + 1 THEN Len(tpl) ELSE PlaceholderAt[p] - 1)]

\* The template with the text of each slot in the place of its placeholder
\* and nowhere else.
FilledTemplate(texts) ==
  Join([j \in 1..(2 * Len(texts) + 1) |->
          IF j % 2 = 0 THEN texts[j \div 2] ELSE TemplatePieces[(j + 1) \div 2]])

\* C26: html_shell returns the template with each slot's text where the
\* template has the slot's placeholder: a text put in for one slot comes out
\* as it went in, also when it holds the name of a later placeholder.
C26_SlotsVerbatim ==
  op = "html_shell" => ret = FilledTemplate(SlotTexts)

\* The sheets of a workbook whose header row lacks one of the columns.
SheetsLacking(wb, required) ==
  {k \in 1..Len(wb) :
     \E c \in 1..Len(required) :
       \A i \in 1..Len(wb[k].headers) : wb[k].headers[i] # required[c]}

\* C21: when a sheet of the compliance workbook lacks one of the required
\* columns, or a sheet of the comparison workbook lacks Country, the run ends
\* with SystemExit: it does not end normally without the sheet's page.
C21_MissingColumnAborts ==
  (/\ op = "main"
   /\ \/ SheetsLacking(arg.wb_a, COMPLIANCE_REQUIRED) # {}
      \/ SheetsLacking(arg.wb_b, <<DEFAULT_COLUMNS.country>>) # {})
    => ret = SystemExit

\* C25: no two files a run writes have one name.
C25_FileNamesDistinct ==
  op = "main" =>
    \A i, j \in 1..Len(loc.written) :
      loc.written[i].name = loc.written[j].name => i = j

====
